---- MODULE Spec2Model ----
(***************************************************************************)
(* Model of the watchman client state machine (cmds/state.cpp) and of the  *)
(* trigger engine (TriggerCommand.cpp).                                    *)
(*                                                                         *)
(* One root is modelled.  The state commands run on the thread of the      *)
(* client that issued them; the cookie sync continuations run on worker    *)
(* threads, so every continuation is an action of its own that may         *)
(* interleave with the commands of every client.  leave_state enqueues     *)
(* its payload before it takes the assertedStates lock, so it is two       *)
(* steps: the enqueue, and the locked removeAssertion with what follows.   *)
(***************************************************************************)
EXTENDS Integers, Sequences, FiniteSets, TLC

\* ------------------------------------------------------------------------
\* Bounds and value sets
\* ------------------------------------------------------------------------

\* Assertions accepted by state-enter in a run, over all clients and names.
MaxAssertions == 2

Clients == {"c1", "c2"}

\* The sessions that go away during a run; the others stay connected.
Leavers == {"c1"}
Names == {"A", "B"}

\* json metadata of a command: absent (nullptr) or some value.
NoMetadata == "null"

\* The arguments of the commands: those about state A use the object form
\* with metadata, those about state B the plain string form.
ArgMetadata(n) == IF n = "A" THEN "m" ELSE NoMetadata

\* ClientStateDisposition
PendingEnter == "PendingEnter"
Asserted == "Asserted"
PendingLeave == "PendingLeave"
Done == "Done"

\* enterPayload == nullptr
NoPayload == [kind |-> "none"]

VARIABLES
    assertions,          \* assertion id -> ClientStateAssertion (name, disposition, enterPayload)
    assertedStates,      \* root->assertedStates: name -> queue of assertion ids
    stateTransCount,     \* root->stateTransCount
    states,              \* client->states: client -> name -> assertion id (0: no entry)
    session,             \* client -> "connected" | "vacating" | "closed"
    vacating,            \* client -> assertion whose leave_state is between enqueue and remove (0: none)
    enterSync,           \* assertion id -> state of the continuation of state-enter's cookie sync
    leaveSync,           \* assertion id -> state of the continuation of state-leave's cookie sync
    leaveMetadata,       \* assertion id -> parsed.metadata captured by state-leave's continuation
    unilateralResponses, \* root->unilateralResponses: name -> the payloads enqueued for it, in order
    lastPdu              \* the last response PDU sent to a client

stateVars == <<assertions, assertedStates, stateTransCount, states, session,
               vacating, enterSync, leaveSync, leaveMetadata,
               unilateralResponses, lastPdu>>

VARIABLES
    cmd,            \* the TriggerCommand's configuration (set by the constructor)
    arg_max,        \* ChildProcess::getArgMax()
    env,            \* cmd->env
    since_spec,     \* query->since_spec
    ticks,          \* the root's clock
    changed,        \* the files changed since the position of since_spec
    subscriber,     \* subscriber_: the items published and not yet fetched
    ping,           \* ping_ is signalled
    stopTrigger,    \* stopTrigger_
    tpc,            \* where the trigger thread is
    spc,            \* where the caller of stop() is
    procs,          \* every ChildProcess created, with its state
    current_proc,   \* cmd->current_proc (0: null)
    logged          \* what the trigger wrote to the log at ERR or FATAL

trigVars == <<cmd, arg_max, env, since_spec, ticks, changed,
              subscriber, ping, stopTrigger, tpc, spc, procs, current_proc,
              logged>>

\* The evaluation of one dirname or idirname term
VARIABLES
    term,           \* the term of the query expression, as JSON
    case_sensitive, \* query->case_sensitive
    wholeName,      \* ctx->getWholeName() of the file the term is evaluated on
    expr,           \* the DirNameExpr made by the parser
    evalResult      \* what evaluate returned

termVars == <<term, case_sensitive, wholeName, expr, evalResult>>

\* The redirections of a trigger definition in the constructor
VARIABLES
    trig,           \* the values of "stdout" and "stderr" in the definition
    platform,       \* what the daemon is built for
    redirection,    \* stdout_name, stdout_flags, stderr_name, stderr_flags
    ctor            \* where the constructor is

redirVars == <<trig, platform, redirection, ctor>>

\* What a state command leaves alone, what the trigger leaves alone, and so
\* on.
exceptState == <<trigVars, termVars, redirVars>>
exceptTrigger == <<stateVars, termVars, redirVars>>
exceptTerm == <<stateVars, trigVars, redirVars>>
exceptRedir == <<stateVars, trigVars, termVars>>

vars == <<stateVars, trigVars, termVars, redirVars>>

Ids == 1..Len(assertions)

\* ------------------------------------------------------------------------
\* ClientStateAssertions (root->assertedStates)
\* ------------------------------------------------------------------------

SeqToSet(s) == {s[i] : i \in 1..Len(s)}

RemoveFromSeq(s, x) == SelectSeq(s, LAMBDA y : y # x)

InQueue(a) == \E n \in Names : a \in SeqToSet(assertedStates[n])

\* unilateralResponses->enqueue(payload).  The publisher's queue is kept as
\* its projection on each state name: payloads of one name are in enqueue
\* order, payloads of different names are not ordered with each other.
enqueue(out, payload) == [out EXCEPT ![payload.name] = Append(@, payload)]

\* isFront: the assertion is the first of the queue of its name.
isFront(asrt, q, a) ==
    /\ Len(q[asrt[a].name]) > 0
    /\ Head(q[asrt[a].name]) = a

\* queueAssertion throws when the state is already asserted or pending
\* assertion: an assertion of the name is queued whose disposition is
\* PendingEnter or Asserted.
queueAssertionThrows(asrt, q, n) ==
    \E i \in 1..Len(q[n]) : asrt[q[n][i]].disposition \in {PendingEnter, Asserted}

\* removeAssertion: when the assertion is queued, mark it Done and take it out
\* of the queue of its name; when the new front of that queue is Asserted and
\* holds a deferred enterPayload, enqueue that payload and clear it.
\* Works on and returns the triple (assertions, queues, unilateral payloads).
removeAssertion(st, a) ==
    LET n == st.asrt[a].name IN
    IF a \notin SeqToSet(st.q[n]) THEN st
    ELSE
      LET asrt1 == [st.asrt EXCEPT ![a].disposition = Done]
          q1 == [st.q EXCEPT ![n] = RemoveFromSeq(@, a)]
      IN IF Len(q1[n]) = 0 THEN [asrt |-> asrt1, q |-> q1, out |-> st.out]
         ELSE
           LET front == Head(q1[n]) IN
           IF asrt1[front].disposition = Asserted /\ asrt1[front].enterPayload # NoPayload
           THEN [asrt |-> [asrt1 EXCEPT ![front].enterPayload = NoPayload],
                 q |-> q1,
                 out |-> enqueue(st.out, asrt1[front].enterPayload)]
           ELSE [asrt |-> asrt1, q |-> q1, out |-> st.out]

\* The weak_ptr of client->states locks while something holds the assertion:
\* the root's queue, a continuation that has not run to its end, or a
\* leave_state in progress.
Alive(a) ==
    \/ InQueue(a)
    \/ enterSync[a] = "pending"
    \/ leaveSync[a] \in {"pending", "enqueued"}
    \/ \E c \in Clients : vacating[c] = a

\* ------------------------------------------------------------------------
\* Payloads and PDUs
\* ------------------------------------------------------------------------

EnterPayload(a, n, m) ==
    [kind |-> "state-enter", id |-> a, name |-> n, metadata |-> m, abandoned |-> FALSE]

LeavePayload(a, n, m, abandoned) ==
    [kind |-> "state-leave", id |-> a, name |-> n, metadata |-> m, abandoned |-> abandoned]

Pdu(c, kind, n) == [client |-> c, kind |-> kind, name |-> n]

NoPdu == [client |-> "none", kind |-> "none", name |-> "none"]

\* ------------------------------------------------------------------------
\* state-enter
\* ------------------------------------------------------------------------

\* Faulty variant of AlreadyInClient: the entry counts only while its weak_ptr locks.
AlreadyInClient_lockedOnly(c, n) == states[c][n] # 0 /\ Alive(states[c][n])

\* client->states.find(parsed.name) != client->states.end()
AlreadyInClient(c, n) == states[c][n] # 0

cmd_state_enter_already(c, n) ==
    /\ session[c] = "connected"
    /\ lastPdu = NoPdu
    /\ AlreadyInClient(c, n)
    /\ lastPdu' = Pdu(c, "error: is already asserted", n)
    /\ UNCHANGED <<assertions, assertedStates, stateTransCount, states, session,
                   vacating, enterSync, leaveSync, leaveMetadata, unilateralResponses>>
    /\ UNCHANGED exceptState

\* Faulty variant of cmd_state_enter_throws: stateTransCount++ moved before
\* queueAssertion.
cmd_state_enter_throws_countFirst(c, n) ==
    /\ session[c] = "connected"
    /\ lastPdu = NoPdu
    /\ ~AlreadyInClient(c, n)
    /\ queueAssertionThrows(assertions, assertedStates, n)
    /\ stateTransCount' = stateTransCount + 1
    /\ lastPdu' = Pdu(c, "error: queueAssertion threw", n)
    /\ UNCHANGED <<assertions, assertedStates, states, session,
                   vacating, enterSync, leaveSync, leaveMetadata, unilateralResponses>>
    /\ UNCHANGED exceptState

cmd_state_enter_throws(c, n) ==
    /\ session[c] = "connected"
    /\ lastPdu = NoPdu
    /\ ~AlreadyInClient(c, n)
    /\ queueAssertionThrows(assertions, assertedStates, n)
    /\ lastPdu' = Pdu(c, "error: queueAssertion threw", n)
    /\ UNCHANGED <<assertions, assertedStates, stateTransCount, states, session,
                   vacating, enterSync, leaveSync, leaveMetadata, unilateralResponses>>
    /\ UNCHANGED exceptState

\* Faulty variant of cmd_state_enter_ok: the state-enter payload is enqueued
\* by the command itself, before its response has left.
cmd_state_enter_ok_broadcastsFirst(c, n, m) ==
    LET a == Len(assertions) + 1 IN
    /\ session[c] = "connected"
    /\ lastPdu = NoPdu
    /\ Len(assertions) < MaxAssertions
    /\ ~AlreadyInClient(c, n)
    /\ ~queueAssertionThrows(assertions, assertedStates, n)
    /\ assertions' = Append(assertions,
          [name |-> n, disposition |-> PendingEnter,
           enterPayload |-> NoPayload, metadata |-> m])
    /\ assertedStates' = [assertedStates EXCEPT ![n] = Append(@, a)]
    /\ stateTransCount' = stateTransCount + 1
    /\ states' = [states EXCEPT ![c][n] = a]
    /\ lastPdu' = Pdu(c, "state-enter", n)
    /\ enterSync' = Append(enterSync, "pending")
    /\ leaveSync' = Append(leaveSync, "none")
    /\ leaveMetadata' = Append(leaveMetadata, NoMetadata)
    /\ unilateralResponses' = enqueue(unilateralResponses, EnterPayload(a, n, m))
    /\ UNCHANGED <<session, vacating>>
    /\ UNCHANGED exceptState

cmd_state_enter_ok(c, n, m) ==
    LET a == Len(assertions) + 1 IN
    /\ session[c] = "connected"
    /\ lastPdu = NoPdu
    /\ Len(assertions) < MaxAssertions
    /\ ~AlreadyInClient(c, n)
    /\ ~queueAssertionThrows(assertions, assertedStates, n)
    /\ assertions' = Append(assertions,
          [name |-> n, disposition |-> PendingEnter,
           enterPayload |-> NoPayload, metadata |-> m])
    /\ assertedStates' = [assertedStates EXCEPT ![n] = Append(@, a)]
    /\ stateTransCount' = stateTransCount + 1
    /\ states' = [states EXCEPT ![c][n] = a]
    /\ lastPdu' = Pdu(c, "state-enter", n)
    /\ enterSync' = Append(enterSync, "pending")
    /\ leaveSync' = Append(leaveSync, "none")
    /\ leaveMetadata' = Append(leaveMetadata, NoMetadata)
    /\ UNCHANGED <<session, vacating, unilateralResponses>>
    /\ UNCHANGED exceptState

cmd_state_enter(c, n, m) ==
    \/ cmd_state_enter_already(c, n)
    \/ cmd_state_enter_throws(c, n)
    \/ cmd_state_enter_ok(c, n, m)

\* Faulty variant of EnterSyncFailed: the failure is logged and nothing is removed.
EnterSyncFailed_logOnly(a) ==
    /\ lastPdu = NoPdu
    /\ enterSync[a] = "pending"
    /\ enterSync' = [enterSync EXCEPT ![a] = "failed"]
    /\ UNCHANGED <<assertions, assertedStates, unilateralResponses, stateTransCount,
                   states, session, vacating, leaveSync, leaveMetadata, lastPdu>>
    /\ UNCHANGED exceptState

\* The continuation of state-enter's cookie sync, the sync having failed.
EnterSyncFailed(a) ==
    LET st == removeAssertion(
                 [asrt |-> assertions, q |-> assertedStates, out |-> unilateralResponses], a)
    IN
    /\ lastPdu = NoPdu
    /\ enterSync[a] = "pending"
    /\ enterSync' = [enterSync EXCEPT ![a] = "failed"]
    /\ assertions' = st.asrt
    /\ assertedStates' = st.q
    /\ unilateralResponses' = st.out
    /\ UNCHANGED <<stateTransCount, states, session, vacating, leaveSync,
                   leaveMetadata, lastPdu>>
    /\ UNCHANGED exceptState

\* Faulty variant of BroadcastEnterNow: the payload is enqueued without looking at
\* the queue.
BroadcastEnterNow_always(asrt, q, a) == TRUE

\* wlock->isFront(assertion), after disposition = Asserted
BroadcastEnterNow(asrt, q, a) == isFront(asrt, q, a)

\* Faulty variant of EnterSyncOk: the payload is enqueued at the front and kept in
\* enterPayload as well.
EnterSyncOk_keepsPayload(a) ==
    LET payload == EnterPayload(a, assertions[a].name, assertions[a].metadata)
        asrt1 == [assertions EXCEPT ![a].disposition = Asserted,
                                    ![a].enterPayload = payload]
    IN
    /\ lastPdu = NoPdu
    /\ enterSync[a] = "pending"
    /\ enterSync' = [enterSync EXCEPT ![a] = "ok"]
    /\ assertions' = asrt1
    /\ IF BroadcastEnterNow(asrt1, assertedStates, a)
       THEN unilateralResponses' = enqueue(unilateralResponses, payload)
       ELSE UNCHANGED unilateralResponses
    /\ UNCHANGED <<assertedStates, stateTransCount, states, session, vacating,
                   leaveSync, leaveMetadata, lastPdu>>
    /\ UNCHANGED exceptState

\* The continuation of state-enter's cookie sync, the sync having succeeded.
EnterSyncOk(a) ==
    LET payload == EnterPayload(a, assertions[a].name, assertions[a].metadata)
        asrt1 == [assertions EXCEPT ![a].disposition = Asserted]
    IN
    /\ lastPdu = NoPdu
    /\ enterSync[a] = "pending"
    /\ enterSync' = [enterSync EXCEPT ![a] = "ok"]
    /\ IF BroadcastEnterNow(asrt1, assertedStates, a)
       THEN /\ unilateralResponses' = enqueue(unilateralResponses, payload)
            /\ assertions' = asrt1
       ELSE /\ assertions' = [asrt1 EXCEPT ![a].enterPayload = payload]
            /\ UNCHANGED unilateralResponses
    /\ UNCHANGED <<assertedStates, stateTransCount, states, session, vacating,
                   leaveSync, leaveMetadata, lastPdu>>
    /\ UNCHANGED exceptState

\* ------------------------------------------------------------------------
\* state-leave
\* ------------------------------------------------------------------------

\* Faulty variant of cmd_state_leave_error: the stale entry is erased from
\* the client's map when its assertion is found dead.
cmd_state_leave_error_erases(c, n) ==
    LET a == states[c][n] IN
    /\ session[c] = "connected"
    /\ lastPdu = NoPdu
    /\ \/ /\ a = 0
          /\ lastPdu' = Pdu(c, "error: is not asserted", n)
       \/ /\ a # 0
          /\ ~Alive(a) \/ assertions[a].disposition = Done
          /\ lastPdu' = Pdu(c, "error: was implicitly vacated", n)
    /\ states' = [states EXCEPT ![c][n] = 0]
    /\ UNCHANGED <<assertions, assertedStates, stateTransCount, session,
                   vacating, enterSync, leaveSync, leaveMetadata, unilateralResponses>>
    /\ UNCHANGED exceptState

\* state-leave of a name the client has no entry for, or whose entry is dead
\* or Done: an error response and nothing else.
cmd_state_leave_error(c, n) ==
    LET a == states[c][n] IN
    /\ session[c] = "connected"
    /\ lastPdu = NoPdu
    /\ \/ /\ a = 0
          /\ lastPdu' = Pdu(c, "error: is not asserted", n)
       \/ /\ a # 0
          /\ ~Alive(a) \/ assertions[a].disposition = Done
          /\ lastPdu' = Pdu(c, "error: was implicitly vacated", n)
    /\ UNCHANGED <<assertions, assertedStates, stateTransCount, states, session,
                   vacating, enterSync, leaveSync, leaveMetadata, unilateralResponses>>
    /\ UNCHANGED exceptState

cmd_state_leave_ok(c, n, m) ==
    LET a == states[c][n] IN
    /\ session[c] = "connected"
    /\ lastPdu = NoPdu
    /\ a # 0
    /\ Alive(a)
    /\ assertions[a].disposition # Done
    /\ assertions' = [assertions EXCEPT ![a].disposition = PendingLeave]
    /\ states' = [states EXCEPT ![c][n] = 0]
    /\ lastPdu' = Pdu(c, "state-leave", n)
    /\ leaveSync' = [leaveSync EXCEPT ![a] = "pending"]
    /\ leaveMetadata' = [leaveMetadata EXCEPT ![a] = m]
    /\ UNCHANGED <<assertedStates, stateTransCount, session, vacating, enterSync,
                   unilateralResponses>>
    /\ UNCHANGED exceptState

cmd_state_leave(c, n, m) ==
    \/ cmd_state_leave_error(c, n)
    \/ cmd_state_leave_ok(c, n, m)

\* Faulty variant of LeaveSyncFailed: the assertion is removed, as the
\* continuation of state-enter does when its sync fails.
LeaveSyncFailed_removes(a) ==
    LET st == removeAssertion(
                 [asrt |-> assertions, q |-> assertedStates, out |-> unilateralResponses], a)
    IN
    /\ lastPdu = NoPdu
    /\ leaveSync[a] = "pending"
    /\ leaveSync' = [leaveSync EXCEPT ![a] = "failed"]
    /\ assertions' = st.asrt
    /\ assertedStates' = st.q
    /\ unilateralResponses' = st.out
    /\ UNCHANGED <<stateTransCount, states, session, vacating, enterSync,
                   leaveMetadata, lastPdu>>
    /\ UNCHANGED exceptState

\* The continuation of state-leave's cookie sync, the sync having failed:
\* the failure is logged and nothing else is done.
LeaveSyncFailed(a) ==
    /\ lastPdu = NoPdu
    /\ leaveSync[a] = "pending"
    /\ leaveSync' = [leaveSync EXCEPT ![a] = "failed"]
    /\ UNCHANGED <<assertions, assertedStates, stateTransCount, states, session,
                   vacating, enterSync, leaveMetadata, unilateralResponses,
                   lastPdu>>
    /\ UNCHANGED exceptState

\* leave_state, first half: build the payload and enqueue it.
leave_state_enqueue(a, abandoned, metadata) ==
    unilateralResponses' =
        enqueue(unilateralResponses, LeavePayload(a, assertions[a].name, metadata, abandoned))

\* leave_state, second half: removeAssertion under the lock, then
\* stateTransCount++.  The unilateral queue can only have grown by the
\* deferred state-enter of the new front.
leave_state_remove(a) ==
    LET st == removeAssertion(
                 [asrt |-> assertions, q |-> assertedStates, out |-> unilateralResponses], a)
    IN
    /\ assertions' = st.asrt
    /\ assertedStates' = st.q
    /\ unilateralResponses' = st.out
    /\ stateTransCount' = stateTransCount + 1

\* The continuation of state-leave's cookie sync, the sync having succeeded:
\* leave_state(nullptr, assertion, false, parsed.metadata).
LeaveSyncOk(a) ==
    /\ lastPdu = NoPdu
    /\ leaveSync[a] = "pending"
    /\ leave_state_enqueue(a, FALSE, leaveMetadata[a])
    /\ leaveSync' = [leaveSync EXCEPT ![a] = "enqueued"]
    /\ UNCHANGED <<assertions, assertedStates, stateTransCount, states, session,
                   vacating, enterSync, leaveMetadata, lastPdu>>
    /\ UNCHANGED exceptState

LeaveSyncRemove(a) ==
    /\ lastPdu = NoPdu
    /\ leaveSync[a] = "enqueued"
    /\ leave_state_remove(a)
    /\ leaveSync' = [leaveSync EXCEPT ![a] = "ok"]
    /\ UNCHANGED <<states, session, vacating, enterSync, leaveMetadata,
                   lastPdu>>
    /\ UNCHANGED exceptState

\* ------------------------------------------------------------------------
\* Client disconnect
\* ------------------------------------------------------------------------

\* The client goes away: w_client_vacate_states is entered.
Disconnect(c) ==
    /\ lastPdu = NoPdu
    /\ session[c] = "connected"
    /\ session' = [session EXCEPT ![c] = "vacating"]
    /\ UNCHANGED <<assertions, assertedStates, stateTransCount, states, vacating,
                   enterSync, leaveSync, leaveMetadata, unilateralResponses,
                   lastPdu>>
    /\ UNCHANGED exceptState

\* One evaluation of the loop condition of w_client_vacate_states and, for a
\* non-empty map, the iteration up to leave_state's enqueue.
w_client_vacate_states(c) ==
    /\ lastPdu = NoPdu
    /\ session[c] = "vacating"
    /\ vacating[c] = 0
    /\ IF \A n \in Names : states[c][n] = 0
       THEN /\ session' = [session EXCEPT ![c] = "closed"]
            /\ UNCHANGED <<states, vacating, unilateralResponses>>
       ELSE \E n \in Names :
              /\ states[c][n] # 0
              /\ UNCHANGED session
              /\ IF ~Alive(states[c][n])
                 THEN /\ states' = [states EXCEPT ![c][n] = 0]
                      /\ UNCHANGED <<vacating, unilateralResponses>>
                 ELSE /\ leave_state_enqueue(states[c][n], TRUE, NoMetadata)
                      /\ vacating' = [vacating EXCEPT ![c] = states[c][n]]
                      /\ UNCHANGED states
    /\ UNCHANGED <<assertions, assertedStates, stateTransCount, enterSync,
                   leaveSync, leaveMetadata, lastPdu>>
    /\ UNCHANGED exceptState

\* Faulty variant of vacate_leave_state_remove: leave_state is given no client, so
\* the entry stays in client->states.
vacate_leave_state_remove_noClient(c) ==
    LET a == vacating[c] IN
    /\ lastPdu = NoPdu
    /\ session[c] = "vacating"
    /\ a # 0
    /\ leave_state_remove(a)
    /\ vacating' = [vacating EXCEPT ![c] = 0]
    /\ UNCHANGED <<states, session, enterSync, leaveSync, leaveMetadata, lastPdu>>
    /\ UNCHANGED exceptState

\* The rest of leave_state(client, assertion, true, nullptr).
vacate_leave_state_remove(c) ==
    LET a == vacating[c] IN
    /\ lastPdu = NoPdu
    /\ session[c] = "vacating"
    /\ a # 0
    /\ leave_state_remove(a)
    /\ states' = [states EXCEPT ![c][assertions[a].name] = 0]
    /\ vacating' = [vacating EXCEPT ![c] = 0]
    /\ UNCHANGED <<session, enterSync, leaveSync, leaveMetadata, lastPdu>>
    /\ UNCHANGED exceptState


\* ========================================================================
\* Trigger engine (TriggerCommand.cpp)
\* ========================================================================

Files == {"a", "bb", "ccc"}

\* The files of a set as the query emits them: in name order.
RECURSIVE SetToSeq(_)
SetToSeq(fs) ==
    IF fs = {} THEN <<>>
    ELSE LET f == CHOOSE x \in fs : \A y \in fs : Len(x) <= Len(y)
         IN <<f>> \o SetToSeq(fs \ {f})

\* The files of the query's interest that one change of the tree touches.
ChangeSets == {{}, {"a"}, {"a", "bb"}, {"a", "bb", "ccc"}}

Min(a, b) == IF a < b THEN a ELSE b

\* trigger_input_style
input_dev_null == "input_dev_null"
input_json == "input_json"
input_name_list == "input_name_list"

\* sizeof(char*)
PointerSize == 8

\* "Allow some misc working overhead"
ArgOverhead == 32

\* ChildProcess::getArgMax() of the platforms modelled.
ArgMaxes == {40, 64, 80}

\* The sizes cmd->env.asEnviron() reports.
EnvSizes == {0, 30}

\* cmd->command, the argv template.
Command == <<"cmd">>

\* What the operating system does to one spawn_command.
IoOutcomes == {"ok", "mkstemp fails", "write fails", "spawn fails"}

NoSpec == [tag |-> "none"]
ClockSpec(t) == [tag |-> "w_cs_clock", ticks |-> t]
\* A since-spec that is not a clock: a time stamp.
TimestampSpec == [tag |-> "w_cs_timestamp", timestamp |-> 1]

\* cmd->query->relative_root is null
NoRelativeRoot == "nullptr"

\* cmd->env.set(name, value)
env_set(e, name, value) == (name :> value) @@ e

\* cmd->env.unset(name)
env_unset(e, name) == [k \in DOMAIN e \ {name} |-> e[k]]

\* "Set some standard vars": the environment the constructor leaves.
StandardVars ==
    [WATCHMAN_ROOT |-> "root", WATCHMAN_SOCK |-> "sock",
     WATCHMAN_TRIGGER |-> "trigger"]

\* position.toClockString()
toClockString(t) == <<"c:", t>>

\* The triggers a definition can create: append_files, stdin, max_files_stdin
\* and relative_root of the constructor.
TriggerConfigs ==
    [append_files : BOOLEAN,
     stdin_style : {input_dev_null, input_json, input_name_list},
     max_files_stdin : 0..2,
     relative_root : {NoRelativeRoot, "sub"}]

\* A size_t value v is kept as the integer r with v = r mod 2^64 and
\* |r| < 2^63: every size of the model is far below 2^31, so a negative r
\* stands for the wrapped value 2^64 + r.
USub(r, s) == r - s

\* argspace_remaining < size, both unsigned.
ULess(r, s) == r >= 0 /\ r < s

\* ------------------------------------------------------------------------
\* prepare_stdin
\* ------------------------------------------------------------------------

\* "Adjust result to fit within the specified limit"
TruncatedResults(c, results) ==
    IF c.max_files_stdin > 0
    THEN SubSeq(results, 1, Min(c.max_files_stdin, Len(results)))
    ELSE results

\* The bytes written for input_name_list: each name, then a newline.
RECURSIVE NamePerLine(_)
NamePerLine(names) ==
    IF names = <<>> THEN <<>>
    ELSE <<Head(names), "\n">> \o NamePerLine(Tail(names))

\* jsonEncodeToStream(res->resultsArray, ...): the array, as one document.
JsonEncode(results) == <<[json_array |-> results]>>

\* Faulty variant of Rewind: the stream is handed over as the writes left it.
Rewind_none(file) == file

\* stdin_file->rewind()
Rewind(file) == [file EXCEPT !.offset = 0]

\* A stream that was written from its start: the offset is at the end.
Written(content) == [path |-> "wmanXXXXXX", content |-> content, offset |-> Len(content)]

\* prepare_stdin(cmd, res): the stream (ok = FALSE: NULL) and the results
\* array as it is left.
prepare_stdin(c, results, io) ==
    IF c.stdin_style = input_dev_null
    THEN [ok |-> TRUE,
          file |-> [path |-> "/dev/null", content |-> <<>>, offset |-> 0],
          results |-> results]
    ELSE
      LET fileList == TruncatedResults(c, results) IN
      IF io = "mkstemp fails" \/ (io = "write fails" /\ fileList # <<>>)
      THEN [ok |-> FALSE, file |-> [path |-> "none", content |-> <<>>, offset |-> 0],
            results |-> fileList]
      ELSE [ok |-> TRUE,
            file |-> Rewind(Written(IF c.stdin_style = input_json
                                    THEN JsonEncode(fileList)
                                    ELSE NamePerLine(fileList))),
            results |-> fileList]

\* ------------------------------------------------------------------------
\* spawn_command
\* ------------------------------------------------------------------------

\* Faulty variant of StdinOverflow: the overflow is looked for after prepare_stdin
\* has resized the results.
StdinOverflow_afterResize(c, results) ==
    c.max_files_stdin > 0 /\ Len(TruncatedResults(c, results)) > c.max_files_stdin

\* "Record an overflow before we call prepare_stdin()"
StdinOverflow(c, results) ==
    c.max_files_stdin > 0 /\ Len(results) > c.max_files_stdin

\* "Measure how much space the base args take up"
RECURSIVE BaseArgsSize(_)
BaseArgsSize(args) ==
    IF args = <<>> THEN 0
    ELSE Len(Head(args)) + 1 + PointerSize + BaseArgsSize(Tail(args))

\* The loop over res->dedupedFileNames: the argv, whether the loop broke on
\* a name that does not fit, and the space left.
RECURSIVE AppendFiles(_, _, _)
AppendFiles(names, args, remaining) ==
    IF names = <<>> THEN [args |-> args, overflow |-> FALSE, remaining |-> remaining]
    ELSE LET size == Len(Head(names)) + 1 + PointerSize IN
         IF ULess(remaining, size)
         THEN [args |-> args, overflow |-> TRUE, remaining |-> remaining]
         ELSE AppendFiles(Tail(names), Append(args, Head(names)), USub(remaining, size))

\* The argv of the child and file_overflow as the append_files block leaves it.
ComputeArgs(c, deduped, file_overflow, argMax, envSize) ==
    IF c.append_files
    THEN LET remaining == USub(USub(USub(argMax, ArgOverhead), BaseArgsSize(Command)), envSize)
             r == AppendFiles(deduped, Command, remaining)
         IN [args |-> r.args, file_overflow |-> file_overflow \/ r.overflow,
             remaining |-> r.remaining]
    ELSE [args |-> Command, file_overflow |-> file_overflow,
          remaining |-> USub(argMax, ArgOverhead)]

\* Faulty variant of SinceEnv: the tag of the since-spec is not looked at.
SinceEnv_anySpec(e, prior) ==
    IF prior # NoSpec
    THEN env_set(e, "WATCHMAN_SINCE",
                 toClockString(IF prior.tag = "w_cs_clock" THEN prior.ticks ELSE 0))
    ELSE env_unset(e, "WATCHMAN_SINCE")

\* WATCHMAN_SINCE is the clock string of the since-spec the query ran with, if
\* that is a clock.
SinceEnv(e, prior) ==
    IF prior.tag = "w_cs_clock"
    THEN env_set(e, "WATCHMAN_SINCE", toClockString(prior.ticks))
    ELSE env_unset(e, "WATCHMAN_SINCE")

\* spawn_command up to the creation of the child: whether it got as far as
\* ChildProcess (the stdin stream could be made), cmd->env as it leaves it,
\* and the options and argv of the child.
spawn_command(c, e, res, prior, argMax, envSize, io) ==
    LET file_overflow == StdinOverflow(c, res.resultsArray)
        stdin == prepare_stdin(c, res.resultsArray, io)
    IN
    IF ~stdin.ok THEN [launch |-> FALSE, env |-> e]
    ELSE
      LET e1 == SinceEnv(e, prior)
          e2 == env_set(e1, "WATCHMAN_CLOCK", toClockString(res.clockAtStartOfQuery))
          e3 == IF c.relative_root # NoRelativeRoot
                THEN env_set(e2, "WATCHMAN_RELATIVE_ROOT", c.relative_root)
                ELSE env_unset(e2, "WATCHMAN_RELATIVE_ROOT")
          a == ComputeArgs(c, res.dedupedFileNames, file_overflow, argMax, envSize)
          e4 == env_set(e3, "WATCHMAN_FILES_OVERFLOW",
                        IF a.file_overflow THEN "true" ELSE "false")
      IN [launch |-> TRUE,
          env |-> e4,
          child |-> [status |-> "running",
                     environment |-> e4,
                     stdin |-> stdin.file,
                     args |-> a.args,
                     result |-> res]]

\* ------------------------------------------------------------------------
\* The trigger thread
\* ------------------------------------------------------------------------

\* Spawns of a run, successful or not.
MaxSpawns == 2

\* Items the subscriber holds unfetched.
MaxPending == 1

\* Changes of the tree in a run: the ticks of the root's clock.
MaxTicks == 2

\* w_query_execute: the files changed since since_spec, in order, with the
\* clock sampled at the start of the query.
w_query_execute ==
    [resultsArray |-> SetToSeq(changed),
     dedupedFileNames |-> IF cmd.append_files THEN SetToSeq(changed) ELSE <<>>,
     clockAtStartOfQuery |-> ticks]

Running == {p \in 1..Len(procs) : procs[p].status = "running"}

\* if (current_proc) { current_proc->kill(); current_proc->wait(); }
\* A child that ran is killed; one that had ended by itself is reaped.
KillAndWait(ps, p) ==
    IF p = 0 THEN ps
    ELSE [ps EXCEPT ![p].status = IF @ = "running" THEN "killed" ELSE "reaped"]

\* start(): subscribe and create the thread.
start ==
    /\ tpc = "not started"
    /\ spc = "idle"
    /\ tpc' = "loop"
    /\ UNCHANGED <<cmd, arg_max, env, since_spec, ticks, changed,
                   subscriber, ping, stopTrigger, spc, procs, current_proc>>
    /\ UNCHANGED logged
    /\ UNCHANGED exceptTrigger

\* while (!w_is_stopping() && !stopTrigger_)
run_loop ==
    /\ tpc = "loop"
    /\ tpc' = IF stopTrigger THEN "out of loop" ELSE "poll"
    /\ UNCHANGED <<cmd, arg_max, env, since_spec, ticks, changed,
                   subscriber, ping, stopTrigger, spc, procs, current_proc>>
    /\ UNCHANGED logged
    /\ UNCHANGED exceptTrigger

\* w_poll_events returns (ping_ is signalled, or the day is over), then the
\* check that follows it.
run_poll ==
    /\ tpc = "poll"
    /\ tpc' = IF stopTrigger THEN "out of loop" ELSE "testAndClear"
    /\ UNCHANGED <<cmd, arg_max, env, since_spec, ticks, changed,
                   subscriber, ping, stopTrigger, spc, procs, current_proc>>
    /\ UNCHANGED logged
    /\ UNCHANGED exceptTrigger

\* Faulty variant of run_testAndClear: any item of the batch counts as a
\* settle.
run_testAndClear_anyItem ==
    /\ tpc = "testAndClear"
    /\ IF ~ping
       THEN /\ tpc' = "loop"
            /\ UNCHANGED <<ping, subscriber>>
       ELSE /\ ping' = FALSE
            /\ subscriber' = <<>>
            /\ tpc' = IF subscriber # <<>> THEN "maybeSpawn" ELSE "testAndClear"
    /\ UNCHANGED <<cmd, arg_max, env, since_spec, ticks, changed,
                   stopTrigger, spc, procs, current_proc>>
    /\ UNCHANGED logged
    /\ UNCHANGED exceptTrigger

\* while (ping_->testAndClear()) with getPending and the scan for "settled".
run_testAndClear ==
    /\ tpc = "testAndClear"
    /\ IF ~ping
       THEN /\ tpc' = "loop"
            /\ UNCHANGED <<ping, subscriber>>
       ELSE /\ ping' = FALSE
            /\ subscriber' = <<>>
            /\ tpc' = IF \E i \in 1..Len(subscriber) : subscriber[i] = "settled"
                      THEN "maybeSpawn" ELSE "testAndClear"
    /\ UNCHANGED <<cmd, arg_max, env, since_spec, ticks, changed,
                   stopTrigger, spc, procs, current_proc>>
    /\ UNCHANGED logged
    /\ UNCHANGED exceptTrigger

\* maybeSpawn returns false before the query: the view reports a VCS
\* operation in progress.
maybeSpawn_vcs ==
    /\ tpc = "maybeSpawn"
    /\ tpc' = "testAndClear"
    /\ UNCHANGED <<env, since_spec, changed, procs, current_proc>>
    /\ UNCHANGED <<cmd, arg_max, ticks, subscriber, ping, stopTrigger, spc>>
    /\ UNCHANGED logged
    /\ UNCHANGED exceptTrigger

\* Faulty variant of maybeSpawn_queryThrows: the exception is not caught in
\* maybeSpawn and reaches the handler of run(), which ends the thread.
maybeSpawn_queryThrows_uncaught ==
    /\ tpc = "maybeSpawn"
    /\ logged' = logged \cup {"error running trigger query"}
    /\ tpc' = "exited"
    /\ UNCHANGED <<env, since_spec, changed, procs, current_proc>>
    /\ UNCHANGED <<cmd, arg_max, ticks, subscriber, ping, stopTrigger, spc>>
    /\ UNCHANGED exceptTrigger

\* Faulty variant of maybeSpawn_queryThrows: the since-spec is replaced before
\* the query is executed.
maybeSpawn_queryThrows_advances ==
    /\ tpc = "maybeSpawn"
    /\ logged' = logged \cup {"error running trigger query"}
    /\ since_spec' = ClockSpec(ticks)
    /\ tpc' = "testAndClear"
    /\ UNCHANGED <<env, changed, procs, current_proc>>
    /\ UNCHANGED <<cmd, arg_max, ticks, subscriber, ping, stopTrigger, spc>>
    /\ UNCHANGED exceptTrigger

\* maybeSpawn: w_query_execute throws QueryExecError.
maybeSpawn_queryThrows ==
    /\ tpc = "maybeSpawn"
    /\ logged' = logged \cup {"error running trigger query"}
    /\ tpc' = "testAndClear"
    /\ UNCHANGED <<env, since_spec, changed, procs, current_proc>>
    /\ UNCHANGED <<cmd, arg_max, ticks, subscriber, ping, stopTrigger, spc>>
    /\ UNCHANGED exceptTrigger

\* maybeSpawn: the query ran and matched nothing.
maybeSpawn_empty ==
    /\ tpc = "maybeSpawn"
    /\ w_query_execute.resultsArray = <<>>
    /\ since_spec' = ClockSpec(w_query_execute.clockAtStartOfQuery)
    /\ changed' = {}
    /\ tpc' = "testAndClear"
    /\ UNCHANGED <<env, procs, current_proc>>
    /\ UNCHANGED <<cmd, arg_max, ticks, subscriber, ping, stopTrigger, spc>>
    /\ UNCHANGED logged
    /\ UNCHANGED exceptTrigger

\* Faulty variant of CreateChild: the new child is made and the previous one is left
\* alone.
CreateChild_noKill(ps, cur, child, io) ==
    IF io = "spawn fails"
    THEN [procs |-> ps, current_proc |-> cur]
    ELSE [procs |-> Append(ps, child), current_proc |-> Len(ps) + 1]

\* The try block of spawn_command: the previous child is killed and waited
\* for, then the new ChildProcess is made, which may throw.
CreateChild(ps, cur, child, io) ==
    IF io = "spawn fails"
    THEN [procs |-> KillAndWait(ps, cur), current_proc |-> cur]
    ELSE [procs |-> Append(KillAndWait(ps, cur), child),
          current_proc |-> Len(ps) + 1]

\* What spawn_command logs at ERR: the errno of the stdin stream that could
\* not be made, or the exception of the child that could not be made.
SpawnLog(launch, io) ==
    IF ~launch THEN {"trigger errno"}
    ELSE IF io = "spawn fails" THEN {"trigger failed"}
    ELSE {}

\* maybeSpawn: the query matched files and spawn_command ran.
maybeSpawn_spawn ==
    /\ tpc = "maybeSpawn"
    /\ w_query_execute.resultsArray # <<>>
    /\ Len(procs) < MaxSpawns
    /\ since_spec' = ClockSpec(w_query_execute.clockAtStartOfQuery)
    /\ changed' = {}
    /\ \E io \in IoOutcomes, envSize \in EnvSizes :
          LET r == spawn_command(cmd, env, w_query_execute, since_spec,
                                 arg_max, envSize, io)
          IN /\ env' = r.env
             /\ IF r.launch
                THEN LET made == CreateChild(procs, current_proc, r.child, io) IN
                     /\ procs' = made.procs
                     /\ current_proc' = made.current_proc
                ELSE UNCHANGED <<procs, current_proc>>
             /\ logged' = logged \cup SpawnLog(r.launch, io)
    /\ tpc' = "waitNoIntr"
    /\ UNCHANGED <<cmd, arg_max, ticks, subscriber, ping, stopTrigger, spc>>
    /\ UNCHANGED exceptTrigger

maybeSpawn ==
    \/ maybeSpawn_vcs
    \/ maybeSpawn_queryThrows
    \/ maybeSpawn_empty
    \/ maybeSpawn_spawn

\* waitNoIntr(), called when maybeSpawn returned true.
waitNoIntr ==
    /\ tpc = "waitNoIntr"
    /\ tpc' = "testAndClear"
    /\ IF ~stopTrigger /\ current_proc # 0 /\ procs[current_proc].status # "running"
       THEN /\ current_proc' = 0
            /\ procs' = [procs EXCEPT ![current_proc].status = "reaped"]
       ELSE UNCHANGED <<procs, current_proc>>
    /\ UNCHANGED <<cmd, arg_max, env, since_spec, ticks, changed,
                   subscriber, ping, stopTrigger, spc>>
    /\ UNCHANGED logged
    /\ UNCHANGED exceptTrigger

\* After the loop: if (current_proc) { kill; wait; }
run_exit ==
    /\ tpc = "out of loop"
    /\ tpc' = "exited"
    /\ procs' = KillAndWait(procs, current_proc)
    /\ UNCHANGED <<cmd, arg_max, env, since_spec, ticks, changed,
                   subscriber, ping, stopTrigger, spc, current_proc>>
    /\ UNCHANGED logged
    /\ UNCHANGED exceptTrigger

\* stop(): stopTrigger_ = true
stop_set ==
    /\ spc = "idle"
    /\ tpc # "not started"
    /\ stopTrigger' = TRUE
    /\ spc' = "notify"
    /\ UNCHANGED <<cmd, arg_max, env, since_spec, ticks, changed,
                   subscriber, ping, tpc, procs, current_proc>>
    /\ UNCHANGED logged
    /\ UNCHANGED exceptTrigger

\* stop(): ping_->notify()
stop_notify ==
    /\ spc = "notify"
    /\ ping' = TRUE
    /\ spc' = "join"
    /\ UNCHANGED <<cmd, arg_max, env, since_spec, ticks, changed,
                   subscriber, stopTrigger, tpc, procs, current_proc>>
    /\ UNCHANGED logged
    /\ UNCHANGED exceptTrigger

\* stop(): triggerThread_.join() returns
stop_join ==
    /\ spc = "join"
    /\ tpc = "exited"
    /\ spc' = "stopped"
    /\ UNCHANGED <<cmd, arg_max, env, since_spec, ticks, changed,
                   subscriber, ping, stopTrigger, tpc, procs, current_proc>>
    /\ UNCHANGED logged
    /\ UNCHANGED exceptTrigger

\* stop() on a trigger that was not started: stopTrigger_ = true, and the
\* thread is not joinable.
stop_notStarted ==
    /\ spc = "idle"
    /\ tpc = "not started"
    /\ stopTrigger' = TRUE
    /\ spc' = "stopped"
    /\ UNCHANGED <<cmd, arg_max, env, since_spec, ticks, changed,
                   subscriber, ping, tpc, procs, current_proc>>
    /\ UNCHANGED logged
    /\ UNCHANGED exceptTrigger

\* triggerThread_.joinable(): the thread was started and not joined.
joinable == tpc # "not started" /\ spc # "stopped"

\* Faulty variant of Fatal: the test on joinable() is left out.
Fatal_notStopped == ~stopTrigger

\* The test of ~TriggerCommand.
Fatal == joinable /\ ~stopTrigger

\* ~TriggerCommand, run by the owner of the trigger when it is not inside
\* stop().  log(FATAL, ...) ends the process, and the trigger thread with it.
destroy ==
    /\ spc \in {"idle", "stopped"}
    /\ IF Fatal
       THEN /\ logged' = logged \cup {"destroying trigger without stopping it first"}
            /\ spc' = "aborted"
            /\ tpc' = "aborted"
       ELSE /\ spc' = "destroyed"
            /\ UNCHANGED <<tpc, logged>>
    /\ UNCHANGED <<cmd, arg_max, env, since_spec, ticks, changed,
                   subscriber, ping, stopTrigger, procs, current_proc>>
    /\ UNCHANGED exceptTrigger

\* The root publishes an item; the subscription's callback notifies ping_.
Publish(item) ==
    /\ tpc # "not started"
    /\ spc \notin {"destroyed", "aborted"}
    /\ Len(subscriber) < MaxPending
    /\ subscriber' = Append(subscriber, item)
    /\ ping' = TRUE
    /\ UNCHANGED <<cmd, arg_max, env, since_spec, ticks, changed,
                   stopTrigger, tpc, spc, procs, current_proc>>
    /\ UNCHANGED logged
    /\ UNCHANGED exceptTrigger

\* Files of the tree change; the root's clock ticks.
FileChange(fs) ==
    /\ ticks < MaxTicks
    /\ ticks' = ticks + 1
    /\ changed' = changed \cup fs
    /\ UNCHANGED <<cmd, arg_max, env, since_spec, subscriber, ping,
                   stopTrigger, tpc, spc, procs, current_proc>>
    /\ UNCHANGED logged
    /\ UNCHANGED exceptTrigger

\* A child process ends by itself.
ChildExits(p) ==
    /\ procs[p].status = "running"
    /\ procs' = [procs EXCEPT ![p].status = "exited"]
    /\ UNCHANGED <<cmd, arg_max, env, since_spec, ticks, changed,
                   subscriber, ping, stopTrigger, tpc, spc, current_proc>>
    /\ UNCHANGED logged
    /\ UNCHANGED exceptTrigger

\* The TriggerCommand after its constructor, for a trigger definition c on a
\* platform whose argument limit is argMax.
TriggerCreated(c, argMax) ==
    /\ cmd = c
    /\ arg_max = argMax
    /\ env = StandardVars
    /\ since_spec = NoSpec
    /\ ticks = 0
    /\ changed = {}
    /\ subscriber = <<>>
    /\ ping = FALSE
    /\ stopTrigger = FALSE
    /\ tpc = "not started"
    /\ spc = "idle"
    /\ procs = <<>>
    /\ current_proc = 0
    /\ logged = {}

\* The changes of the tree between two steps of the loop: none, or two
\* files.  (spawn_command is given every result in SpawnSpec.)
LoopChanges == {{}, {"a", "bb"}}

TriggerNext ==
    \/ start
    \/ run_loop
    \/ run_poll
    \/ run_testAndClear
    \/ maybeSpawn
    \/ waitNoIntr
    \/ run_exit
    \/ stop_set
    \/ stop_notify
    \/ stop_join
    \/ \E item \in {"settled", "state-enter"} : Publish(item)
    \/ \E fs \in LoopChanges : FileChange(fs)
    \/ \E p \in 1..Len(procs) : ChildExits(p)

\* ------------------------------------------------------------------------
\* The dirname and idirname terms
\* ------------------------------------------------------------------------

\* Length of the whole names and of the directory operands.
MaxWholeName == 3
MaxDirName == 1

\* The characters of names: a letter in both cases and the two separators.
Chars == {"a", "A", "/", "\\"}

\* The strings of at most n characters, as sequences of characters.
Strings(n) == UNION {[1..k -> Chars] : k \in 0..n}

CaseSensitive == "CaseSensitive"
CaseInSensitive == "CaseInSensitive"

IntCompareOps == {"eq", "ne", "gt", "ge", "lt", "le"}
DepthOperands == 0..1

\* The third element of a term, when there is one: ["depth", op, operand].
DepthTerms == [present : {TRUE}, op : IntCompareOps, operand : DepthOperands]
NoDepthTerm == [present |-> FALSE]

\* The well-formed terms: [name, dir] and [name, dir, ["depth", op, operand]].
Terms ==
    {[name |-> n, dir |-> d, depth |-> t] :
        n \in {"dirname", "idirname"}, d \in Strings(MaxDirName),
        t \in DepthTerms \cup {NoDepthTerm}}

\* Faulty variant of is_dir_sep: the backslash is no separator.
is_dir_sep_slashOnly(ch) == ch = "/"

is_dir_sep(ch) == ch = "/" \/ ch = "\\"

\* tolower of a character.
tolower(ch) == IF ch = "A" THEN "a" ELSE ch

w_string_startswith(str, prefix) ==
    /\ Len(prefix) <= Len(str)
    /\ \A i \in 1..Len(prefix) : str[i] = prefix[i]

\* Faulty variant of w_string_startswith_caseless: the case is compared.
w_string_startswith_caseless_exact(str, prefix) ==
    w_string_startswith(str, prefix)

w_string_startswith_caseless(str, prefix) ==
    /\ Len(prefix) <= Len(str)
    /\ \A i \in 1..Len(prefix) : tolower(str[i]) = tolower(prefix[i])

\* The call through the pointer DirNameExpr::startswith.
StartsWith(f, str, prefix) ==
    IF f = "w_string_startswith_caseless"
    THEN w_string_startswith_caseless(str, prefix)
    ELSE w_string_startswith(str, prefix)

eval_int_compare(ival, comp) ==
    CASE comp.op = "eq" -> ival = comp.operand
      [] comp.op = "ne" -> ival # comp.operand
      [] comp.op = "gt" -> ival > comp.operand
      [] comp.op = "ge" -> ival >= comp.operand
      [] comp.op = "lt" -> ival < comp.operand
      [] comp.op = "le" -> ival <= comp.operand

\* DirNameExpr::evaluate.  str.data()[i] of the code is str[i + 1] here.
evaluate(e, str) ==
    IF Len(str) <= Len(e.dirname) THEN FALSE
    ELSE IF Len(e.dirname) > 0 /\ ~is_dir_sep(str[Len(e.dirname) + 1]) THEN FALSE
    ELSE IF ~StartsWith(e.startswith, str, e.dirname) THEN FALSE
    ELSE LET actual_depth ==
                 Cardinality({i \in (Len(e.dirname) + 1)..(Len(str) - 1) :
                                 is_dir_sep(str[i + 1])})
         IN eval_int_compare(actual_depth, e.depth)

\* DirNameExpr::parse of a well-formed term.
parse(t, cs) ==
    [parsed |-> TRUE,
     dirname |-> t.dir,
     depth |-> IF t.depth.present
               THEN [op |-> t.depth.op, operand |-> t.depth.operand]
               ELSE [op |-> "ge", operand |-> 0],
     startswith |-> IF cs = CaseInSensitive
                    THEN "w_string_startswith_caseless"
                    ELSE "w_string_startswith"]

parseDirName(query_case_sensitive, t) == parse(t, query_case_sensitive)

parseIDirName(query_case_sensitive, t) == parse(t, CaseInSensitive)

NoExpr == [parsed |-> FALSE]

\* The parser registered for the name of the term makes the expression.
parseTerm ==
    /\ ~expr.parsed
    /\ expr' = IF term.name = "dirname"
               THEN parseDirName(case_sensitive, term)
               ELSE parseIDirName(case_sensitive, term)
    /\ UNCHANGED <<term, case_sensitive, wholeName, evalResult>>
    /\ UNCHANGED exceptTerm

\* The expression is evaluated on the file.
evaluateTerm ==
    /\ expr.parsed
    /\ evalResult = "unevaluated"
    /\ evalResult' = IF evaluate(expr, wholeName) THEN "true" ELSE "false"
    /\ UNCHANGED <<term, case_sensitive, wholeName, expr>>
    /\ UNCHANGED exceptTerm

\* No term is evaluated.
NoTerm ==
    /\ term = [name |-> "dirname", dir |-> <<>>, depth |-> NoDepthTerm]
    /\ case_sensitive = CaseSensitive
    /\ wholeName = <<>>
    /\ expr = NoExpr
    /\ evalResult = "unevaluated"

\* ------------------------------------------------------------------------
\* The redirections of a trigger
\* ------------------------------------------------------------------------

\* Length of a redirection value.
MaxRedirection == 3

\* The characters of a redirection: the prefix and a letter of a file name.
RedirChars == {">", "f"}

\* trig.get_default(label): nothing, a value that is no string, or a string.
Absent == [isString |-> FALSE, absent |-> TRUE]
NotAString == [isString |-> FALSE, absent |-> FALSE]
StringValue(str) == [isString |-> TRUE, absent |-> FALSE, value |-> str]

RedirValues ==
    {Absent, NotAString}
      \cup {StringValue(str) :
               str \in UNION {[1..k -> RedirChars] : k \in 0..MaxRedirection}}

Platforms == {"posix", "win32"}

\* name.erase(0, n)
erase(name, n) == SubSeq(name, n + 1, Len(name))

\* Faulty variant of parse_redirection: one character is erased of ">>".
parse_redirection_eraseOne(ele, name, plat) ==
    IF ele.absent THEN [throws |-> FALSE, name |-> name, flags |-> {}]
    ELSE IF ~ele.isString THEN [throws |-> TRUE, name |-> name, flags |-> {}]
    ELSE IF ele.value = <<>> \/ ele.value[1] # ">"
    THEN [throws |-> TRUE, name |-> ele.value, flags |-> {}]
    ELSE IF Len(ele.value) >= 2 /\ ele.value[2] = ">"
    THEN IF plat = "win32"
         THEN [throws |-> TRUE, name |-> ele.value, flags |-> {"O_CREAT", "O_WRONLY"}]
         ELSE [throws |-> FALSE, name |-> erase(ele.value, 1),
               flags |-> {"O_CREAT", "O_WRONLY", "O_APPEND"}]
    ELSE [throws |-> FALSE, name |-> erase(ele.value, 1),
          flags |-> {"O_CREAT", "O_WRONLY", "O_TRUNC"}]

\* parse_redirection on the value ele of the label, with name as the string
\* it is given: whether it throws CommandValidationError, and name and
\* *flags as it leaves them.  name[1] of a string of one character is its
\* terminator.
parse_redirection(ele, name, plat) ==
    IF ele.absent THEN [throws |-> FALSE, name |-> name, flags |-> {}]
    ELSE IF ~ele.isString THEN [throws |-> TRUE, name |-> name, flags |-> {}]
    ELSE IF ele.value = <<>> \/ ele.value[1] # ">"
    THEN [throws |-> TRUE, name |-> ele.value, flags |-> {}]
    ELSE IF Len(ele.value) >= 2 /\ ele.value[2] = ">"
    THEN IF plat = "win32"
         THEN [throws |-> TRUE, name |-> ele.value, flags |-> {"O_CREAT", "O_WRONLY"}]
         ELSE [throws |-> FALSE, name |-> erase(ele.value, 2),
               flags |-> {"O_CREAT", "O_WRONLY", "O_APPEND"}]
    ELSE [throws |-> FALSE, name |-> erase(ele.value, 1),
          flags |-> {"O_CREAT", "O_WRONLY", "O_TRUNC"}]

\* What spawn_command does with a descriptor of the child: opens the file
\* that is named, or passes the daemon's descriptor on.
Redirect(r) ==
    IF r.name # <<>> THEN [open |-> TRUE, path |-> r.name, flags |-> r.flags]
    ELSE [open |-> FALSE]

\* The constructor: parse_redirection(trig, stdout_name, &stdout_flags, "stdout")
TriggerCommand_stdout ==
    /\ ctor = "stdout"
    /\ LET r == parse_redirection(trig.stdout, redirection.stdout.name, platform) IN
       /\ redirection' = [redirection EXCEPT !.stdout = [name |-> r.name, flags |-> r.flags]]
       /\ ctor' = IF r.throws THEN "CommandValidationError stdout" ELSE "stderr"
    /\ UNCHANGED <<trig, platform>>
    /\ UNCHANGED exceptRedir

\* The constructor: parse_redirection(trig, stderr_name, &stderr_flags, "stderr")
TriggerCommand_stderr ==
    /\ ctor = "stderr"
    /\ LET r == parse_redirection(trig.stderr, redirection.stderr.name, platform) IN
       /\ redirection' = [redirection EXCEPT !.stderr = [name |-> r.name, flags |-> r.flags]]
       /\ ctor' = IF r.throws THEN "CommandValidationError stderr" ELSE "constructed"
    /\ UNCHANGED <<trig, platform>>
    /\ UNCHANGED exceptRedir

\* std::string stdout_name, stderr_name as constructed; the flags are read
\* only after parse_redirection has set them.
NoRedirection ==
    [stdout |-> [name |-> <<>>, flags |-> {}], stderr |-> [name |-> <<>>, flags |-> {}]]

\* A trigger definition that names no redirection, after its constructor.
NoRedirections ==
    /\ trig = [stdout |-> Absent, stderr |-> Absent]
    /\ platform = "posix"
    /\ redirection = NoRedirection
    /\ ctor = "constructed"

\* ------------------------------------------------------------------------
\* Specification of the client state machine
\* ------------------------------------------------------------------------

StateInit ==
    /\ assertions = <<>>
    /\ assertedStates = [n \in Names |-> <<>>]
    /\ stateTransCount = 0
    /\ states = [c \in Clients |-> [n \in Names |-> 0]]
    /\ session = [c \in Clients |-> "connected"]
    /\ vacating = [c \in Clients |-> 0]
    /\ enterSync = <<>>
    /\ leaveSync = <<>>
    /\ leaveMetadata = <<>>
    /\ unilateralResponses = [n \in Names |-> <<>>]
    /\ lastPdu = NoPdu

\* The response PDU in flight reaches its client.
ResponseDelivered ==
    /\ lastPdu # NoPdu
    /\ lastPdu' = NoPdu
    /\ UNCHANGED <<assertions, assertedStates, stateTransCount, states, session,
                   vacating, enterSync, leaveSync, leaveMetadata, unilateralResponses>>
    /\ UNCHANGED exceptState

\* A response PDU is sent by the thread that built it before that thread does
\* anything else: while one is in lastPdu only ResponseDelivered is enabled.
Next ==
    \/ \E c \in Clients, n \in Names : cmd_state_enter(c, n, ArgMetadata(n))
    \/ \E c \in Clients, n \in Names : cmd_state_leave(c, n, ArgMetadata(n))
    \/ ResponseDelivered
    \/ \E a \in Ids : EnterSyncFailed(a)
    \/ \E a \in Ids : EnterSyncOk(a)
    \/ \E a \in Ids : LeaveSyncFailed(a)
    \/ \E a \in Ids : LeaveSyncOk(a)
    \/ \E a \in Ids : LeaveSyncRemove(a)
    \/ \E c \in Leavers : Disconnect(c)
    \/ \E c \in Clients : w_client_vacate_states(c)
    \/ \E c \in Clients : vacate_leave_state_remove(c)

\* The trigger of the root is created and never started.
Init ==
    /\ StateInit
    /\ NoTerm
    /\ NoRedirections
    /\ TriggerCreated([append_files |-> FALSE, stdin_style |-> input_dev_null,
                       max_files_stdin |-> 0, relative_root |-> NoRelativeRoot], 80)

\* The client state machine of one root.
Spec == Init /\ [][Next]_vars

\* No state command is issued.
NoStateCommands ==
    /\ assertions = <<>>
    /\ assertedStates = [n \in Names |-> <<>>]
    /\ stateTransCount = 0
    /\ states = [c \in Clients |-> [n \in Names |-> 0]]
    /\ session = [c \in Clients |-> "connected"]
    /\ vacating = [c \in Clients |-> 0]
    /\ enterSync = <<>>
    /\ leaveSync = <<>>
    /\ leaveMetadata = <<>>
    /\ unilateralResponses = [n \in Names |-> <<>>]
    /\ lastPdu = NoPdu

\* The trigger definitions whose thread is followed from start() to stop().
LoopConfigs ==
    {[append_files |-> TRUE, stdin_style |-> input_name_list,
      max_files_stdin |-> 1, relative_root |-> "sub"],
     [append_files |-> FALSE, stdin_style |-> input_dev_null,
      max_files_stdin |-> 0, relative_root |-> NoRelativeRoot]}

TriggerInit ==
    /\ NoStateCommands
    /\ NoTerm
    /\ NoRedirections
    /\ \E c \in LoopConfigs : TriggerCreated(c, 64)

\* One trigger of one root, with the root's publisher, clock and tree and
\* the caller of stop() as its environment.
TriggerSpec == TriggerInit /\ [][TriggerNext]_vars

LifetimeNext ==
    \/ TriggerNext
    \/ stop_notStarted
    \/ destroy

\* The trigger from its constructor to its destructor.
LifetimeSpec == TriggerInit /\ [][LifetimeNext]_vars

\* w_poll_events returns because ping_ is signalled.
run_poll_pinged == run_poll /\ ping

\* The same trigger when its thread and the caller of stop() are scheduled:
\* a step of the thread that stays possible is taken, a signalled ping_ ends
\* the poll, and stop() goes on to notify and to join.  Nothing is assumed
\* of the publisher, the tree, the children or of stop() being called.
TriggerFairSpec ==
    /\ TriggerInit
    /\ [][TriggerNext]_vars
    /\ WF_vars(run_loop)
    /\ WF_vars(run_poll_pinged)
    /\ WF_vars(run_testAndClear)
    /\ WF_vars(maybeSpawn)
    /\ WF_vars(waitNoIntr)
    /\ WF_vars(run_exit)
    /\ WF_vars(stop_notify)
    /\ WF_vars(stop_join)

\* The trigger thread as it enters maybeSpawn with no child yet: the files
\* fs changed at tick 1, and the query ran before (at tick 0) or not; a
\* query that did not run before has no since-spec or one that is no clock.
AtMaybeSpawn(c, argMax, fs, prior) ==
    /\ cmd = c
    /\ arg_max = argMax
    /\ env = StandardVars
    /\ since_spec = prior
    /\ ticks = 1
    /\ changed = fs
    /\ subscriber = <<>>
    /\ ping = FALSE
    /\ stopTrigger = FALSE
    /\ tpc = "maybeSpawn"
    /\ spc = "idle"
    /\ procs = <<>>
    /\ current_proc = 0
    /\ logged = {}

SpawnInit ==
    /\ NoStateCommands
    /\ NoTerm
    /\ NoRedirections
    /\ \E c \in TriggerConfigs, argMax \in ArgMaxes, fs \in ChangeSets,
          prior \in {NoSpec, ClockSpec(0), TimestampSpec} : AtMaybeSpawn(c, argMax, fs, prior)

SpawnNext ==
    \/ maybeSpawn
    \/ waitNoIntr
    \/ \E p \in 1..Len(procs) : ChildExits(p)

\* spawn_command for every trigger definition, argument limit and result.
SpawnSpec == SpawnInit /\ [][SpawnNext]_vars

\* Items of one batch: what getPending can return at once.
MaxBatch == 2

RECURSIVE Batches(_)
Batches(n) ==
    IF n = 0 THEN {<<>>}
    ELSE Batches(n - 1) \cup
         {Append(b, item) : b \in {x \in Batches(n - 1) : Len(x) = n - 1},
                            item \in {"settled", "state-enter"}}

\* The trigger after start(), its thread at the head of the loop, the root
\* having published the items of batch since the subscription was made.
AtLoopHead(c, argMax, batch) ==
    /\ cmd = c
    /\ arg_max = argMax
    /\ env = StandardVars
    /\ since_spec = NoSpec
    /\ ticks = 0
    /\ changed = {}
    /\ subscriber = batch
    /\ ping = (batch # <<>>)
    /\ stopTrigger = FALSE
    /\ tpc = "loop"
    /\ spc = "idle"
    /\ procs = <<>>
    /\ current_proc = 0
    /\ logged = {}

BatchInit ==
    /\ NoStateCommands
    /\ NoTerm
    /\ NoRedirections
    /\ \E c \in LoopConfigs, batch \in Batches(MaxBatch) : AtLoopHead(c, 64, batch)

BatchNext ==
    \/ run_loop
    \/ run_poll
    \/ run_testAndClear
    \/ maybeSpawn
    \/ waitNoIntr
    \/ run_exit
    \/ stop_set
    \/ stop_notify
    \/ stop_join
    \/ \E item \in {"settled", "state-enter"} : Publish(item)
    \/ \E fs \in LoopChanges : FileChange(fs)
    \/ \E p \in 1..Len(procs) : ChildExits(p)

\* The started trigger whose first batch holds up to MaxBatch items.
BatchSpec == BatchInit /\ [][BatchNext]_vars

\* A trigger that is created and never started.
IdleTrigger ==
    TriggerCreated([append_files |-> FALSE, stdin_style |-> input_dev_null,
                    max_files_stdin |-> 0, relative_root |-> NoRelativeRoot], 80)

DirnameInit ==
    /\ NoStateCommands
    /\ IdleTrigger
    /\ NoRedirections
    /\ term \in Terms
    /\ case_sensitive \in {CaseSensitive, CaseInSensitive}
    /\ wholeName \in Strings(MaxWholeName)
    /\ expr = NoExpr
    /\ evalResult = "unevaluated"

DirnameNext ==
    \/ parseTerm
    \/ evaluateTerm

\* Every well-formed dirname and idirname term of a query of either case
\* sensitivity, parsed and evaluated on every whole name.
DirnameSpec == DirnameInit /\ [][DirnameNext]_vars

RedirectionInit ==
    /\ NoStateCommands
    /\ IdleTrigger
    /\ NoTerm
    /\ trig \in [stdout : RedirValues, stderr : RedirValues]
    /\ platform \in Platforms
    /\ redirection = NoRedirection
    /\ ctor = "stdout"

RedirectionNext ==
    \/ TriggerCommand_stdout
    \/ TriggerCommand_stderr

\* The constructor of a trigger on every value of "stdout" and "stderr", on
\* either platform.
RedirectionSpec == RedirectionInit /\ [][RedirectionNext]_vars

\* ------------------------------------------------------------------------
\* Properties of the client state machine
\* ------------------------------------------------------------------------

\* The payloads of a kind enqueued for assertion a.
Broadcasts(a, kind) ==
    LET log == unilateralResponses[assertions[a].name] IN
    Cardinality({i \in 1..Len(log) : log[i].kind = kind /\ log[i].id = a})

BroadcastsNext(a, kind) ==
    LET log == unilateralResponses'[assertions'[a].name] IN
    Cardinality({i \in 1..Len(log) : log[i].kind = kind /\ log[i].id = a})

AbandonedLeaves(a) ==
    LET log == unilateralResponses[assertions[a].name] IN
    Cardinality({i \in 1..Len(log) :
        log[i] = LeavePayload(a, assertions[a].name, NoMetadata, TRUE)})

EnterKinds == {"state-enter", "error: is already asserted", "error: queueAssertion threw"}

\* This step is the state-enter command of client c on name n.
IsStateEnterOf(c, n) ==
    /\ lastPdu = NoPdu
    /\ lastPdu'.client = c
    /\ lastPdu'.name = n
    /\ lastPdu'.kind \in EnterKinds

\* C1: when the state-enter of an assertion B is on the unilateral queue,
\* every assertion of the same name that was queued before B has left the
\* root's FIFO (removeAssertion marked it Done), whatever the order in
\* which the cookie syncs completed.
C1_FifoFairness ==
    \A b \in Ids :
        Broadcasts(b, "state-enter") > 0 =>
            \A a \in 1..(b - 1) :
                assertions[a].name = assertions[b].name => ~InQueue(a)

\* An assertion B was queued behind an assertion A of its name, and B's
\* state-enter has been broadcast.
C1_Witness ==
    \E b \in Ids : \E a \in 1..(b - 1) :
        /\ assertions[a].name = assertions[b].name
        /\ Broadcasts(b, "state-enter") = 1
        /\ Broadcasts(a, "state-leave") = 1
        /\ enterSync[a] = "ok"

\* C2 as claimed: every accepted assertion has its state-enter broadcast
\* exactly once; stated for the assertions that can no longer be broadcast
\* (out of the FIFO, enter continuation finished).
C2_ExactlyOnce ==
    \A a \in Ids :
        (~InQueue(a) /\ enterSync[a] # "pending") => Broadcasts(a, "state-enter") = 1

\* C2 (amended): the state-enter payload of an assertion is broadcast at
\* most once (the unilateral queue, empty at first, holds at most one after
\* every step that changes it), and in the step that enqueues it the
\* assertion is at the head of the FIFO of its name and its disposition is
\* Asserted.
C2_AtMostOnceAtHead ==
    [][unilateralResponses' # unilateralResponses =>
         /\ \A a \in 1..Len(assertions') : BroadcastsNext(a, "state-enter") <= 1
         /\ \A a \in Ids :
              BroadcastsNext(a, "state-enter") > Broadcasts(a, "state-enter") =>
                  /\ isFront(assertions', assertedStates', a)
                  /\ assertions'[a].disposition = Asserted]_vars

\* The state-enter of an assertion whose payload had been deferred is on the
\* unilateral queue.
C2_Witness ==
    \E b \in Ids : \E a \in 1..(b - 1) :
        /\ assertions[a].name = assertions[b].name
        /\ Broadcasts(b, "state-enter") = 1
        /\ InQueue(b)
        /\ leaveSync[a] = "ok"

C7_AlreadyAsserted ==
    [][\A c \in Clients, n \in Names :
          (states[c][n] # 0 /\ IsStateEnterOf(c, n))
          => /\ lastPdu'.kind = "error: is already asserted"
             /\ UNCHANGED <<assertions, assertedStates, stateTransCount, states,
                            session, vacating, enterSync, leaveSync, leaveMetadata,
                            unilateralResponses>>]_vars

\* A session that holds a name was answered "is already asserted" for it.
C7_Witness ==
    /\ lastPdu.kind = "error: is already asserted"
    /\ states[lastPdu.client][lastPdu.name] # 0

\* C8: an assertion whose state-enter cookie sync failed is out of the FIFO
\* and Done, and no state-enter payload of it was broadcast or is deferred.
C8_EnterSyncFailure ==
    \A a \in Ids :
        enterSync[a] = "failed" =>
            /\ ~InQueue(a)
            /\ assertions[a].disposition = Done
            /\ assertions[a].enterPayload = NoPayload
            /\ Broadcasts(a, "state-enter") = 0

\* The enter sync of an assertion failed and a later assertion of the name
\* has been broadcast.
C8_Witness ==
    \E a \in Ids : \E b \in Ids :
        /\ a < b
        /\ assertions[a].name = assertions[b].name
        /\ enterSync[a] = "failed"
        /\ Broadcasts(b, "state-enter") = 1

\* C9 as claimed: an assertion whose state-enter or state-leave cookie sync
\* failed is out of the FIFO and Done.
C9_FailedSyncCleansUp ==
    \A a \in Ids :
        (enterSync[a] = "failed" \/ leaveSync[a] = "failed") =>
            /\ ~InQueue(a)
            /\ assertions[a].disposition = Done

\* The entries of a client's map.
MapSize(m) == Cardinality({n \in Names : m[n] # 0})

\* C10: w_client_vacate_states.  Every iteration over a live entry enqueues
\* one state-leave with abandoned = true and no metadata and starts no
\* cookie sync; the rest of the iteration takes the assertion out of the
\* FIFO (Done) and the entry out of the map; a dead entry is erased without
\* a broadcast; every completed iteration shrinks the map; the function
\* returns with the map empty; no assertion gets two such broadcasts.
\* (Stated of the steps that change the unilateral queue, the sessions or
\* the clients' maps; the other steps leave what is said here as it was.)
C10_ImplicitVacate ==
    [][/\ unilateralResponses' # unilateralResponses =>
            \A a \in 1..Len(assertions') : AbandonedLeaves(a)' <= 1
       /\ <<session, states, vacating>>' # <<session, states, vacating>> =>
          \A c \in Clients :
            /\ session'[c] = "closed" => MapSize(states'[c]) = 0
            /\ (vacating[c] = 0 /\ vacating'[c] # 0) =>
                 LET a == vacating'[c]
                     n == assertions[a].name
                 IN /\ states[c][n] = a
                    /\ unilateralResponses' =
                         enqueue(unilateralResponses, LeavePayload(a, n, NoMetadata, TRUE))
                    /\ UNCHANGED <<enterSync, leaveSync>>
            /\ (vacating[c] # 0 /\ vacating'[c] = 0) =>
                 LET a == vacating[c] IN
                    /\ ~(\E n \in Names : a \in SeqToSet(assertedStates'[n]))
                    /\ assertions'[a].disposition = Done
                    /\ states'[c][assertions[a].name] = 0
                    /\ MapSize(states'[c]) < MapSize(states[c])
            /\ (session[c] = "vacating" /\ vacating[c] = 0 /\ vacating'[c] = 0
                  /\ states'[c] # states[c]) =>
                    /\ MapSize(states'[c]) < MapSize(states[c])
                    /\ UNCHANGED unilateralResponses]_vars

\* The session held two assertions when it went away; both were abandoned.
C10_Witness ==
    \E c \in Clients :
        /\ session[c] = "closed"
        /\ \A n \in Names :
              \E i \in 1..Len(unilateralResponses[n]) :
                  unilateralResponses[n][i].abandoned

\* ------------------------------------------------------------------------
\* Properties of the trigger engine
\* ------------------------------------------------------------------------

\* C3: a trigger has at most one live child at every moment (after every
\* step; it has no child at all when it is created), and whenever a new
\* child is created every child that existed before it has been killed and
\* waited for (or had ended): none of them is running.
C3_OneLiveChild ==
    [][/\ Cardinality(Running)' <= 1
       /\ Len(procs') > Len(procs) =>
            \A p \in 1..Len(procs) : procs'[p].status # "running"]_vars

\* A second child runs after the first one, which ran when the second was
\* spawned, was killed.
C3_Witness ==
    /\ Len(procs) = 2
    /\ procs[1].status = "killed"
    /\ procs[2].status = "running"

\* The deduped names of a child's query result that are not in its argv.
NotAppended(ch) ==
    {i \in 1..Len(ch.result.dedupedFileNames) :
        \A j \in (Len(Command) + 1)..Len(ch.args) :
            ch.args[j] # ch.result.dedupedFileNames[i]}

StdinEntries(ch) ==
    LET k == IF cmd.max_files_stdin = 0 THEN Len(ch.result.resultsArray)
             ELSE Min(Len(ch.result.resultsArray), cmd.max_files_stdin)
    IN [i \in 1..k |-> ch.result.resultsArray[i]]

\* C5: when the stdin style is not input_dev_null, the stdin of every child
\* holds the first min(|results|, max_files_stdin) results in order (all of
\* them when max_files_stdin is 0) and is positioned at offset 0; for
\* input_name_list the content is each of these names followed by one
\* newline, and nothing else.
C5_StdinContent ==
    \A p \in 1..Len(procs) :
        LET ch == procs[p]
            want == StdinEntries(ch)
            got == ch.stdin.content
        IN cmd.stdin_style # input_dev_null =>
             /\ ch.stdin.offset = 0
             /\ cmd.stdin_style = input_json => got = <<[json_array |-> want]>>
             /\ cmd.stdin_style = input_name_list =>
                  /\ Len(got) = 2 * Len(want)
                  /\ \A i \in 1..Len(want) :
                        got[2 * i - 1] = want[i] /\ got[2 * i] = "\n"

\* A child that reads a name list cut from three results to two.
C5_Witness ==
    \E p \in 1..Len(procs) :
        /\ cmd.stdin_style = input_name_list
        /\ cmd.max_files_stdin = 2
        /\ Len(procs[p].result.resultsArray) = 3
        /\ procs[p].stdin.content = <<"a", "\n", "bb", "\n">>
        /\ procs[p].stdin.offset = 0

\* ------------------------------------------------------------------------
\* Properties of state-leave
\* ------------------------------------------------------------------------

LeaveKinds == {"state-leave", "error: is not asserted", "error: was implicitly vacated"}

\* This step is the state-leave command of client c on name n.
IsStateLeaveOf(c, n) ==
    /\ lastPdu = NoPdu
    /\ lastPdu'.client = c
    /\ lastPdu'.name = n
    /\ lastPdu'.kind \in LeaveKinds

TriggerFailures ==
    {"error running trigger query", "trigger errno", "trigger failed"}

SettledPending == \E i \in 1..Len(subscriber) : subscriber[i] = "settled"

C13_StopTerminates ==
    /\ (spc \in {"notify", "join"}) ~> (spc = "stopped")
    /\ [](spc = "stopped" => (tpc = "exited" /\ Running = {}))

\* What does hold of stop(): it returns if the publisher stops publishing
\* at some time, because the loop on ping_->testAndClear() does not test
\* stopTrigger_ and ends only when ping_ is found clear.
C13_StopsWhenPublisherPauses ==
    /\ (<>[][Len(subscriber') <= Len(subscriber)]_subscriber)
          => ((spc \in {"notify", "join"}) ~> (spc = "stopped"))
    /\ [](spc = "stopped" => (tpc = "exited" /\ Running = {}))

\* ------------------------------------------------------------------------
\* Properties of the trigger's destructor
\* ------------------------------------------------------------------------

\* A step of ~TriggerCommand.
IsDestroy == spc \in {"idle", "stopped"} /\ spc' \in {"destroyed", "aborted"}

FatalLogged == "destroying trigger without stopping it first" \in logged

\* C14 as stated: the destructor is fatal when no stop() came before it,
\* and is not fatal when stop() has returned.
C14_FatalWithoutStop ==
    [][IsDestroy =>
          /\ (spc = "idle") => (spc' = "aborted" /\ FatalLogged')
          /\ (spc = "stopped") => (spc' = "destroyed" /\ ~FatalLogged')]_vars

\* C14: the destructor of a trigger that was started is fatal when no stop()
\* came before it; the destructor of a trigger that was never started, or
\* whose stop() has returned, is not fatal.
C14_FatalWhenStartedWithoutStop ==
    [][IsDestroy =>
          /\ (spc = "idle" /\ tpc # "not started")
                => (spc' = "aborted" /\ FatalLogged')
          /\ (spc = "stopped" \/ tpc = "not started")
                => (spc' = "destroyed" /\ ~FatalLogged')]_vars

\* A trigger whose thread had a running child was destroyed without stop().
C14_Witness ==
    /\ spc = "aborted"
    /\ FatalLogged
    /\ ~stopTrigger
    /\ Running # {}

\* ------------------------------------------------------------------------
\* Properties of the child's environment
\* ------------------------------------------------------------------------

\* The environment of the child made by this step has the variable name
\* exactly if set, and then with this value.
ChildHas(name, set, value) ==
    LET environment == procs'[Len(procs')].environment IN
    IF set THEN name \in DOMAIN environment /\ environment[name] = value
    ELSE name \notin DOMAIN environment

\* C15: in the environment of every child that is spawned, WATCHMAN_SINCE is
\* set exactly if the since-spec the query ran with is a clock, and is then
\* its clock string; WATCHMAN_RELATIVE_ROOT is set exactly if the query has a
\* relative root, and is then that root.
C15_SinceAndRelativeRoot ==
    [][Len(procs') > Len(procs) =>
          /\ ChildHas("WATCHMAN_SINCE", since_spec.tag = "w_cs_clock",
                      IF since_spec.tag = "w_cs_clock"
                      THEN <<"c:", since_spec.ticks>> ELSE <<>>)
          /\ ChildHas("WATCHMAN_RELATIVE_ROOT", cmd.relative_root # NoRelativeRoot,
                      cmd.relative_root)]_vars

\* A child of a query with a relative root that ran with the clock of tick 0
\* as its since-spec: it has both variables.
C15_Witness ==
    /\ Len(procs) = 1
    /\ "WATCHMAN_SINCE" \in DOMAIN procs[1].environment
    /\ procs[1].environment["WATCHMAN_SINCE"] = <<"c:", 0>>
    /\ "WATCHMAN_RELATIVE_ROOT" \in DOMAIN procs[1].environment
    /\ procs[1].environment["WATCHMAN_RELATIVE_ROOT"] = "sub"

\* ------------------------------------------------------------------------
\* Properties of the dirname and idirname terms
\* ------------------------------------------------------------------------

Lowercase(str) == [i \in 1..Len(str) |-> IF str[i] = "A" THEN "a" ELSE str[i]]

\* str starts with prefix, character for character.
IsPrefix(prefix, str) ==
    Len(prefix) <= Len(str) /\ SubSeq(str, 1, Len(prefix)) = prefix

\* The separators of W after the one that follows d.
SeparatorsBelow(d, W) ==
    Cardinality({i \in 1..Len(W) : i > Len(d) + 1 /\ W[i] \in {"/", "\\"}})

Compare(op, x, y) ==
    CASE op = "eq" -> x = y
      [] op = "ne" -> x # y
      [] op = "gt" -> x > y
      [] op = "ge" -> x >= y
      [] op = "lt" -> x < y
      [] op = "le" -> x <= y

\* W is below d, at a depth that the term t accepts.
IsBelow(d, W, t) ==
    /\ IsPrefix(d, W)
    /\ Len(W) > Len(d)
    /\ (d = <<>> \/ W[Len(d) + 1] \in {"/", "\\"})
    /\ IF t.depth.present
       THEN Compare(t.depth.op, SeparatorsBelow(d, W), t.depth.operand)
       ELSE SeparatorsBelow(d, W) >= 0

\* C16 as stated: a dirname term is true of W exactly if W is below its
\* directory, names compared with their case, at a depth the term accepts.
C16_DirnameCaseSensitive ==
    (term.name = "dirname" /\ evalResult # "unevaluated") =>
        (evalResult = "true" <=> IsBelow(term.dir, wholeName, term))

\* C16: in a case-sensitive query a dirname term is true of W exactly if W is
\* below its directory, names compared with their case, at a depth the term
\* accepts (at any depth when it names none); in a case-insensitive query
\* the same holds of the lowercased names.
C16_DirnameFollowsQuery ==
    (term.name = "dirname" /\ evalResult # "unevaluated") =>
        (evalResult = "true" <=>
            IF case_sensitive = CaseSensitive
            THEN IsBelow(term.dir, wholeName, term)
            ELSE IsBelow(Lowercase(term.dir), Lowercase(wholeName), term))

\* A dirname term of a case-sensitive query with a depth of exactly one is
\* true of a name that has a backslash after the directory and one more
\* separator.
C16_Witness ==
    /\ term.name = "dirname"
    /\ case_sensitive = CaseSensitive
    /\ term.depth = [present |-> TRUE, op |-> "eq", operand |-> 1]
    /\ term.dir = <<"A">>
    /\ wholeName = <<"A", "\\", "/">>
    /\ evalResult = "true"

\* C17: an idirname term gives on (d, W) what a dirname term with the same
\* depth gives, case-sensitively, on the lowercased d and W.
C17_IdirnameIsLowercasedDirname ==
    (term.name = "idirname" /\ evalResult # "unevaluated") =>
        (evalResult = "true" <=>
            evaluate(parseDirName(CaseSensitive,
                                  [term EXCEPT !.name = "dirname",
                                               !.dir = Lowercase(term.dir)]),
                     Lowercase(wholeName)))

\* An idirname term is true of a name that differs from its directory in
\* case.
C17_Witness ==
    /\ term.name = "idirname"
    /\ term.dir = <<"a">>
    /\ wholeName = <<"A", "/", "A">>
    /\ case_sensitive = CaseSensitive
    /\ evalResult = "true"

\* ------------------------------------------------------------------------
\* Properties of the redirections
\* ------------------------------------------------------------------------

Labels == {"stdout", "stderr"}

\* parse_redirection was called for the label.
Parsed(label) ==
    IF label = "stdout" THEN ctor # "stdout"
    ELSE ctor \in {"constructed", "CommandValidationError stderr"}

\* It threw for the label.
Rejected(label) ==
    IF label = "stdout" THEN ctor = "CommandValidationError stdout"
    ELSE ctor = "CommandValidationError stderr"

\* The value of the label starts with the characters of prefix.
ValueStartsWith(label, prefix) ==
    /\ trig[label].isString
    /\ Len(trig[label].value) >= Len(prefix)
    /\ SubSeq(trig[label].value, 1, Len(prefix)) = prefix

\* The label was accepted with these flags and the value less its first n
\* characters as the file name.
Accepted(label, n, flags) ==
    /\ ~Rejected(label)
    /\ redirection[label].flags = flags
    /\ redirection[label].name = SubSeq(trig[label].value, n + 1, Len(trig[label].value))

\* The label was accepted and the child inherits the daemon's descriptor.
Inherits(label) ==
    /\ ~Rejected(label)
    /\ redirection[label] = [name |-> <<>>, flags |-> {}]
    /\ ~Redirect(redirection[label]).open

\* C18 as stated: ">>" and the file name give create, write and append
\* (where the platform can append), ">" and the file name give create, write
\* and truncate, and a value that is absent or the empty string is accepted
\* and means inherit.
C18_EmptyMeansInherit ==
    \A label \in Labels :
       Parsed(label) =>
          /\ (ValueStartsWith(label, <<">", ">">>) /\ platform = "posix")
                => Accepted(label, 2, {"O_CREAT", "O_WRONLY", "O_APPEND"})
          /\ (ValueStartsWith(label, <<">">>) /\ ~ValueStartsWith(label, <<">", ">">>))
                => Accepted(label, 1, {"O_CREAT", "O_WRONLY", "O_TRUNC"})
          /\ (trig[label].absent \/ (trig[label].isString /\ trig[label].value = <<>>))
                => Inherits(label)

\* C18: ">>" and the file name give create, write and append, and are
\* rejected on Windows; ">" and the file name give create, write and
\* truncate; an absent value is accepted and means inherit; every other
\* value, the empty string among them, is rejected.
C18_Redirection ==
    \A label \in Labels :
       Parsed(label) =>
          /\ (ValueStartsWith(label, <<">", ">">>) /\ platform = "posix")
                => Accepted(label, 2, {"O_CREAT", "O_WRONLY", "O_APPEND"})
          /\ (ValueStartsWith(label, <<">", ">">>) /\ platform = "win32")
                => Rejected(label)
          /\ (ValueStartsWith(label, <<">">>) /\ ~ValueStartsWith(label, <<">", ">">>))
                => Accepted(label, 1, {"O_CREAT", "O_WRONLY", "O_TRUNC"})
          /\ trig[label].absent => Inherits(label)
          /\ (~trig[label].absent /\ ~ValueStartsWith(label, <<">">>))
                => Rejected(label)

\* A trigger that appends its output to f and truncates ff for its errors.
C18_Witness ==
    /\ ctor = "constructed"
    /\ trig.stdout = StringValue(<<">", ">", "f">>)
    /\ trig.stderr = StringValue(<<">", "f", "f">>)
    /\ Redirect(redirection.stdout)
         = [open |-> TRUE, path |-> <<"f">>, flags |-> {"O_CREAT", "O_WRONLY", "O_APPEND"}]
    /\ Redirect(redirection.stderr)
         = [open |-> TRUE, path |-> <<"f", "f">>, flags |-> {"O_CREAT", "O_WRONLY", "O_TRUNC"}]

\* ------------------------------------------------------------------------
\* Properties of a failed state-leave sync
\* ------------------------------------------------------------------------

\* C20: the step in which the cookie sync of a state-leave fails enqueues no
\* broadcast (no state-leave, and no deferred state-enter of a later
\* assertion) and leaves the FIFOs, the dispositions and stateTransCount as
\* they were: an assertion that was in the FIFO of its name with disposition
\* PendingLeave is so after the step, and is not Done.
C20_FailedLeaveSync ==
    [][\A a \in 1..Len(leaveSync) :
          (leaveSync[a] = "pending" /\ leaveSync'[a] = "failed") =>
             /\ UNCHANGED <<assertions, assertedStates, stateTransCount,
                            unilateralResponses>>
             /\ (InQueue(a) /\ assertions[a].disposition = PendingLeave) =>
                   (InQueue(a)' /\ assertions'[a].disposition = PendingLeave)]_vars

\* The sync of a state-leave failed while a later assertion of the name was
\* queued behind it with its state-enter deferred, and the later assertion
\* is still waiting.
C20_Witness ==
    \E a \in Ids : \E b \in Ids :
        /\ leaveSync[a] = "failed"
        /\ InQueue(a)
        /\ assertions[a].disposition = PendingLeave
        /\ a < b
        /\ assertions[b].name = assertions[a].name
        /\ assertions[b].disposition = Asserted
        /\ assertions[b].enterPayload # NoPayload
        /\ Broadcasts(b, "state-enter") = 0

\* ------------------------------------------------------------------------
\* Order of a command's response and its broadcast
\* ------------------------------------------------------------------------

\* The state-leave payloads of assertion a that a state-leave command (not a
\* disconnect) caused.
CommandLeaves(a) ==
    LET log == unilateralResponses[assertions[a].name] IN
    Cardinality({i \in 1..Len(log) :
        log[i].kind = "state-leave" /\ log[i].id = a /\ ~log[i].abandoned})

\* The payloads this step put on the unilateral queue of name n.
Enqueued(n) ==
    {unilateralResponses'[n][i] :
        i \in (Len(unilateralResponses[n]) + 1)..Len(unilateralResponses'[n])}

\* The broadcast a command causes: a state-enter, or a state-leave that is
\* not abandoned.
OfCommand(payload) == payload.kind = "state-enter" \/ ~payload.abandoned

\* C21: the step that accepts a state-enter (it creates the assertion) puts
\* the response {root, state-enter: name} in flight to the caller and
\* enqueues no state-enter of that assertion; the step that accepts a
\* state-leave (it starts the leave sync) puts the state-leave response in
\* flight and enqueues no state-leave of that assertion; and every later step
\* that enqueues the state-enter, or the command's state-leave, of an
\* assertion is taken with no response in flight, that is after the response
\* reached the client.
C21_ResponseBeforeBroadcast ==
    [][/\ \A a \in 1..Len(assertions') :
            /\ a > Len(assertions) =>
                  /\ lastPdu' = Pdu(lastPdu'.client, "state-enter", assertions'[a].name)
                  /\ states'[lastPdu'.client][assertions'[a].name] = a
                  /\ \A payload \in Enqueued(assertions'[a].name) : payload.id # a
            /\ (a <= Len(assertions) /\ leaveSync[a] = "none" /\ leaveSync'[a] = "pending") =>
                  /\ lastPdu' = Pdu(lastPdu'.client, "state-leave", assertions[a].name)
                  /\ states[lastPdu'.client][assertions[a].name] = a
                  /\ \A payload \in Enqueued(assertions[a].name) : payload.id # a
                  /\ CommandLeaves(a) = 0
       /\ \A n \in Names : \A payload \in Enqueued(n) :
            OfCommand(payload) =>
                  /\ lastPdu = NoPdu
                  /\ lastPdu' = NoPdu
                  /\ payload.id <= Len(assertions)
                  /\ payload.kind = "state-leave" => leaveSync[payload.id] = "pending"]_vars

\* Both broadcasts of one assertion are on the unilateral queue, each
\* enqueued after the response of its command was delivered.
C21_Witness ==
    \E a \in Ids :
        /\ Broadcasts(a, "state-enter") = 1
        /\ CommandLeaves(a) = 1
        /\ enterSync[a] = "ok"
        /\ leaveSync[a] \in {"enqueued", "ok"}
        /\ lastPdu = NoPdu

\* ------------------------------------------------------------------------
\* The since-spec of a trigger
\* ------------------------------------------------------------------------

\* This step is a call of maybeSpawn, from its entry to its return.
IsMaybeSpawn == tpc = "maybeSpawn" /\ tpc' # "maybeSpawn"

\* maybeSpawn returned false: the drain loop continues without waitNoIntr.
ReturnsFalse == tpc' = "testAndClear"

\* This step neither spawned nor killed a child nor touched the environment.
NoSpawn == UNCHANGED <<procs, current_proc, env>>

\* C22: the since-spec of a trigger changes in a call of maybeSpawn only.  A
\* call that did not execute the query to its end (a VCS operation is in
\* progress, or the query threw, which is logged) leaves the since-spec and
\* the changes it has not yet seen as they were, spawns nothing and returns
\* false.  Every other call sets the since-spec to the clock at the start of
\* its query; with an empty result set it spawns nothing and returns false,
\* with a non-empty one it returns true.
C22_SinceSpec ==
    [][/\ since_spec' # since_spec => IsMaybeSpawn
       /\ IsMaybeSpawn =>
            \/ /\ since_spec' = since_spec
               /\ changed' = changed
               /\ NoSpawn
               /\ ReturnsFalse
            \/ /\ since_spec' = ClockSpec(w_query_execute.clockAtStartOfQuery)
               /\ "error running trigger query" \notin (logged' \ logged)
               /\ IF w_query_execute.resultsArray = <<>>
                  THEN NoSpawn /\ ReturnsFalse
                  ELSE ~ReturnsFalse
       /\ "error running trigger query" \in (logged' \ logged) =>
              since_spec' = since_spec]_vars

\* A query with an empty result set moved the since-spec to tick 1 without a
\* child having been spawned, a query threw, and the changes of tick 2 are
\* still to be queried.
C22_Witness ==
    /\ since_spec = ClockSpec(1)
    /\ ticks = 2
    /\ changed # {}
    /\ procs = <<>>
    /\ "error running trigger query" \in logged
    /\ tpc = "testAndClear"
    /\ subscriber = <<>>
    /\ ~ping

\* ------------------------------------------------------------------------
\* Queries and drained batches
\* ------------------------------------------------------------------------

\* This step is one turn of the drain loop that found ping_ signalled: the
\* pending items are fetched, all of them.
IsDrain == tpc = "testAndClear" /\ ping /\ ~ping'

\* This step ran no query and spawned nothing.
NoQuery == UNCHANGED <<since_spec, changed, procs, current_proc, env, logged>>

\* C23: maybeSpawn is entered only by a drain whose batch holds an item with
\* "settled", and that drain takes the whole batch, so that a batch is the
\* cause of one call at most, however many of its items are settles; a drain
\* whose batch holds no such item goes back to testAndClear and neither
\* queries nor spawns; the query runs and a child is made inside maybeSpawn
\* only, and when maybeSpawn has returned the thread is back at testAndClear
\* (through waitNoIntr) and needs another drain to call it again.
C23_QueryPerSettledBatch ==
    [][/\ (tpc # "maybeSpawn" /\ tpc' = "maybeSpawn") =>
             IsDrain /\ SettledPending /\ subscriber' = <<>>
       /\ IsDrain =>
             /\ subscriber' = <<>>
             /\ NoQuery
             /\ IF SettledPending THEN tpc' = "maybeSpawn"
                ELSE tpc' = "testAndClear"
       /\ tpc # "maybeSpawn" => UNCHANGED <<since_spec, env, logged>>
                                  /\ Len(procs') = Len(procs)
                                  /\ (changed' = changed \/ ticks' # ticks)
       /\ (tpc = "maybeSpawn" /\ tpc' # tpc) => tpc' \in {"testAndClear", "waitNoIntr"}
       /\ (tpc = "waitNoIntr" /\ tpc' # tpc) => tpc' = "testAndClear"]_vars

\* A batch with a settle has been drained and the query it caused has
\* spawned the one child of the run so far, with nothing published since.
C23_Witness ==
    /\ tpc = "waitNoIntr"
    /\ Len(procs) = 1
    /\ subscriber = <<>>
    /\ ~ping
    /\ since_spec = ClockSpec(1)

\* ------------------------------------------------------------------------
\* The argv budget
\* ------------------------------------------------------------------------

\* What the append_files block computes for the result of child ch when the
\* environment takes envSize bytes.
ArgvOf(ch, envSize) ==
    ComputeArgs(cmd, ch.result.dedupedFileNames, FALSE, arg_max, envSize)

\* The space the block accounts for: every element of the argv, and the
\* environment.
Accounted(args, envSize) == BaseArgsSize(args) + envSize

\* args is the command followed by the first names of deduped, in order.
IsPrefixOfNames(args, deduped) ==
    /\ Len(args) - Len(Command) <= Len(deduped)
    /\ args = Command \o SubSeq(deduped, 1, Len(args) - Len(Command))

\* The first name left out, if there is one, did not fit.
StoppedAtFirstMisfit(args, deduped, envSize) ==
    LET k == Len(args) - Len(Command) IN
    k < Len(deduped) =>
        Accounted(args, envSize) + Len(deduped[k + 1]) + 1 + PointerSize
            > arg_max - ArgOverhead

\* C24: the argv of every child of a trigger with append_files is the argv
\* computed for some size of the environment such that the appended names
\* are a prefix of dedupedFileNames, the space accounted for is at most
\* argMax - 32 and the remaining-space counter has not wrapped below zero.
C24_ArgvBudget ==
    \A p \in 1..Len(procs) :
        cmd.append_files =>
            \E envSize \in EnvSizes :
                LET r == ArgvOf(procs[p], envSize) IN
                /\ procs[p].args = r.args
                /\ IsPrefixOfNames(procs[p].args, procs[p].result.dedupedFileNames)
                /\ Accounted(procs[p].args, envSize) <= arg_max - ArgOverhead
                /\ r.remaining >= 0

\* What holds: the appended names are always a prefix of dedupedFileNames,
\* and when the command and the environment fit in argMax - 32 the space
\* accounted for stays within it, the counter does not wrap, and the first
\* name left out is one that did not fit.
C24_ArgvBudgetWithHeadroom ==
    \A p \in 1..Len(procs) :
        cmd.append_files =>
            \E envSize \in EnvSizes :
                LET r == ArgvOf(procs[p], envSize) IN
                /\ procs[p].args = r.args
                /\ IsPrefixOfNames(procs[p].args, procs[p].result.dedupedFileNames)
                /\ Accounted(Command, envSize) <= arg_max - ArgOverhead =>
                      /\ Accounted(procs[p].args, envSize) <= arg_max - ArgOverhead
                      /\ r.remaining >= 0
                      /\ StoppedAtFirstMisfit(procs[p].args,
                                              procs[p].result.dedupedFileNames, envSize)

\* ------------------------------------------------------------------------
\* The client's entry after a failed enter sync
\* ------------------------------------------------------------------------

\* Client c holds under name n an entry whose enter sync failed.
FailedEntry(c, n) == states[c][n] # 0 /\ enterSync[states[c][n]] = "failed"

\* C25: a state-leave of a name whose entry belongs to an assertion with a
\* failed enter sync removes the entry from the client's map, and a
\* state-enter is never answered "already asserted" because of an entry
\* that the client had tried to leave: when it is so answered, the entry is
\* not one of a failed enter sync.
C25_LeaveRemovesFailedEntry ==
    [][\A c \in Clients, n \in Names :
          /\ (IsStateLeaveOf(c, n) /\ FailedEntry(c, n)) => states'[c][n] = 0
          /\ (IsStateEnterOf(c, n) /\ lastPdu'.kind = "error: is already asserted") =>
                ~FailedEntry(c, n)]_vars

\* What holds: the state-leave of such an entry is answered "was implicitly
\* vacated" and leaves the entry in the map, a state-enter of the name by
\* the same session is answered "already asserted" as long as the session
\* lasts, and the entry goes when the client disconnects: a closed session
\* holds no entry.
C25_FailedEntryStaysUntilDisconnect ==
    [][\A c \in Clients, n \in Names :
          /\ (IsStateLeaveOf(c, n) /\ FailedEntry(c, n)) =>
                /\ lastPdu'.kind = "error: was implicitly vacated"
                /\ states' = states
          /\ (IsStateEnterOf(c, n) /\ FailedEntry(c, n)) =>
                /\ lastPdu'.kind = "error: is already asserted"
                /\ states' = states
          /\ (FailedEntry(c, n) /\ session'[c] = "connected") => FailedEntry(c, n)'
          /\ session'[c] = "closed" => states'[c][n] = 0]_vars

\* ------------------------------------------------------------------------
\* Order of the broadcasts of one assertion
\* ------------------------------------------------------------------------

\* The positions on the unilateral queue of the broadcasts of kind for
\* assertion a.
Positions(a, kind) ==
    LET log == unilateralResponses[assertions[a].name] IN
    {i \in 1..Len(log) : log[i].kind = kind /\ log[i].id = a}

\* C26: every state-leave on the unilateral queue, abandoned or not, has the
\* state-enter of its assertion before it.
C26_EnterBeforeLeave ==
    \A a \in Ids :
        \A i \in Positions(a, "state-leave") :
            \E j \in Positions(a, "state-enter") : j < i

\* What holds: an assertion has one state-leave at most on the queue.
C26_OneLeave ==
    \A a \in Ids : Cardinality(Positions(a, "state-leave")) <= 1

\* ------------------------------------------------------------------------
\* The course of a disposition
\* ------------------------------------------------------------------------

\* The place of a disposition on PendingEnter -> Asserted -> PendingLeave
\* -> Done.
Rank(d) ==
    IF d = PendingEnter THEN 0
    ELSE IF d = Asserted THEN 1
    ELSE IF d = PendingLeave THEN 2
    ELSE 3

\* C27: no step moves the disposition of an assertion backwards: Done
\* stays Done, and PendingLeave and Done never become Asserted.
C27_DispositionForward ==
    [][\A a \in Ids :
          Rank(assertions'[a].disposition) >= Rank(assertions[a].disposition)]_vars

\* What holds: the disposition of an assertion whose enter sync has ended
\* never moves backwards, and the one step that moves a disposition
\* backwards is the successful end of the enter sync, which makes the
\* assertion Asserted whatever it was.
C27_ForwardAfterEnterSync ==
    [][\A a \in Ids :
          /\ enterSync[a] # "pending" =>
                Rank(assertions'[a].disposition) >= Rank(assertions[a].disposition)
          /\ Rank(assertions'[a].disposition) < Rank(assertions[a].disposition) =>
                /\ enterSync[a] = "pending"
                /\ enterSync'[a] = "ok"
                /\ assertions'[a].disposition = Asserted]_vars

\* ------------------------------------------------------------------------
\* Alternation of state-enter and state-leave of one name
\* ------------------------------------------------------------------------

\* Positions i < j of the queue of name n hold state-enters with no
\* state-leave between them.
EntersInARow(n, i, j) ==
    LET log == unilateralResponses[n] IN
    /\ i < j
    /\ log[i].kind = "state-enter"
    /\ log[j].kind = "state-enter"
    /\ \A k \in (i + 1)..(j - 1) : log[k].kind # "state-leave"

\* C28: on the unilateral queue of every name, two state-enters have a
\* state-leave between them.
C28_EntersAlternate ==
    \A n \in Names :
        \A i \in 1..Len(unilateralResponses[n]) :
            \A j \in 1..Len(unilateralResponses[n]) : ~EntersInARow(n, i, j)

\* What holds: when two state-enters follow each other with no state-leave
\* between them, the first is the state-enter of an assertion whose
\* state-leave was enqueued before it; the state-enter of an assertion
\* that is enqueued before its own state-leave is followed by that
\* state-leave before any other state-enter of the name.
C28_EntersAlternateUnlessLate ==
    \A n \in Names :
        \A i \in 1..Len(unilateralResponses[n]) :
            \A j \in 1..Len(unilateralResponses[n]) :
                EntersInARow(n, i, j) =>
                    \E k \in 1..(i - 1) :
                        /\ unilateralResponses[n][k].kind = "state-leave"
                        /\ unilateralResponses[n][k].id = unilateralResponses[n][i].id

\* ------------------------------------------------------------------------
\* The trigger thread after stop()
\* ------------------------------------------------------------------------

\* This step ran a query to its end or into its exception, or made a child.
QueriedOrSpawned ==
    \/ since_spec' # since_spec
    \/ "error running trigger query" \in (logged' \ logged)
    \/ Len(procs') > Len(procs)

\* C29: once stopTrigger is set no batch that is drained leads to
\* maybeSpawn, no query is run and no child is made.
C29_NothingAfterStop ==
    [][stopTrigger =>
          /\ ~(IsDrain /\ tpc' = "maybeSpawn")
          /\ ~QueriedOrSpawned]_vars

\* What holds: stopTrigger is looked at by the outer loop and after the
\* poll only, where it sends the thread out of the loop; a thread that has
\* left the loop neither queries nor spawns, and the children it leaves
\* behind when it has exited do not run.
C29_NothingAfterLoop ==
    [][/\ (stopTrigger /\ tpc \in {"loop", "poll"} /\ tpc' # tpc) => tpc' = "out of loop"
       /\ tpc \in {"out of loop", "exited"} =>
             /\ ~QueriedOrSpawned
             /\ tpc' \in {"out of loop", "exited"}
       /\ tpc' = "exited" => Running' = {}]_vars

\* ------------------------------------------------------------------------
\* Results and the since-spec
\* ------------------------------------------------------------------------

\* This step is a call of maybeSpawn whose query matched files: it
\* returned true.
QueryMatched == tpc = "maybeSpawn" /\ tpc' = "waitNoIntr"

\* This step made a child and gave it the results of the query.
HandedToChild ==
    /\ Len(procs') = Len(procs) + 1
    /\ procs'[Len(procs')].status = "running"
    /\ procs'[Len(procs')].result = w_query_execute

\* C30: a call of maybeSpawn whose query matched files hands the results to
\* a child that was made, or leaves the since-spec where it was, so that the
\* next query matches the same changes again.
C30_NoChangeLost ==
    [][QueryMatched =>
          \/ HandedToChild
          \/ /\ since_spec' = since_spec
             /\ changed' = changed]_vars

\* What holds: the since-spec is advanced to the clock of the query before
\* spawn_command is called; the results go to the child if one is made, and
\* when spawn_command gives up (which it logs) no child has them and the next
\* query starts after them.
C30_SinceSpecAdvancedBeforeSpawn ==
    [][QueryMatched =>
          /\ since_spec' = ClockSpec(w_query_execute.clockAtStartOfQuery)
          /\ changed' = {}
          /\ \/ HandedToChild
             \/ /\ Len(procs') = Len(procs)
                /\ logged' \cap {"trigger errno", "trigger failed"} # {}]_vars

====
